---- MODULE Spec2Model ----
(***************************************************************************)
(* A model of the core of the MCP router: the per-target circuit breaker   *)
(* (router/resilience/circuit_breaker.py), the stdio JSON-RPC bridge       *)
(* (router/servers/bridge.py) and the process manager, registry and        *)
(* supervisor (router/servers/process.py, registry.py, supervisor.py).     *)
(*                                                                         *)
(* The program runs on one asyncio event loop: a coroutine runs without    *)
(* interruption until it awaits something that is not ready.  Each action  *)
(* below is one such uninterrupted stretch of one coroutine, or one event  *)
(* of the environment (the clock advancing, a child process writing a      *)
(* line or exiting).                                                       *)
(*                                                                         *)
(* The specifications share the module, one per subsystem; each leaves     *)
(* the variables of the other subsystems at their initial values.          *)
(***************************************************************************)
EXTENDS Integers, Sequences, FiniteSets, TLC

(***************************************************************************)
(* Bounds of the model.                                                    *)
(***************************************************************************)
MaxTime == 5
MaxThreshold == 2
MaxRecoveryTimeout == 2
MaxHalfOpenCalls == 2
MaxSuccessThreshold == 2
MaxRecorded == 3
MaxWire == 2
MaxNoise == 1
MaxSpawns == 2
MaxRestarts == 1
MaxPasses == 2
MaxCacheSize == 2
MaxTtl == 1
MaxGets == 2
MaxInserts == 3
MaxLLMCalls == 2
MaxServiceTime == 3
MaxRetries == 2

VARIABLES
    \* ---- CircuitBreaker ----
    config,           \* CircuitBreaker.config
    stats,            \* CircuitBreaker._stats
    half_open_calls,  \* CircuitBreaker._half_open_calls
    now,              \* time.time()
    obs,              \* what a caller of the breaker has observed (history)
    \* ---- StdioBridge, its callers and its child ----
    closed,           \* StdioBridge._closed
    request_id,       \* StdioBridge._request_id
    pending,          \* the keys of StdioBridge._pending
    reader_task,      \* StdioBridge._reader_task
    calls,            \* the send() calls: position, id, future, outcome
    close_pc,         \* the position of a close() call
    wire,             \* the lines the child wrote that the reader has not read
    child,            \* the child process at the other end of the pipes
    dropped,          \* the ids of the lines the reader dropped (history)
    \* ---- ServerRegistry, ProcessManager, Supervisor ----
    servers,          \* ServerRegistry._servers: the configurations
    info,             \* ServerRegistry._processes: the ProcessInfo of each server
    processes,        \* ProcessManager._processes: the process handle of each server
    bridges,          \* Supervisor._bridges: the bridge registered for each server
    bobj,             \* the StdioBridge objects, one per child spawned
    children,         \* the child processes, by pid
    next_pid,         \* the pid the next child gets
    running,          \* Supervisor._running
    loop_pc,          \* the position of the _health_check_loop task
    task,             \* the coroutines that call the supervisor
    dead_passes,      \* passes made over a RUNNING server's dead child (history)
    \* ---- EnhancementService and its EnhancementCache ----
    max_size,         \* MemoryCache.max_size
    default_ttl,      \* MemoryCache.default_ttl
    cache,            \* MemoryCache._cache, least recently used entry first
    cstats,           \* MemoryCache._stats
    hist,             \* what was done to the cache so far (history)
    ecalls,           \* the enhance() calls: position, arguments, result
    \* ---- ServerRegistry on its own ----
    registry,         \* ServerRegistry: _servers, _processes and the config file
    reg_call,         \* the last call made on the registry and how it ended
    \* ---- mcp_proxy, the dispatcher of the requests to one server ----
    proxy,            \* the mcp_proxy requests: position and what was recorded
    \* ---- OllamaClient ----
    gen               \* a generate() call: position, attempts made, result

breakerVars == <<config, stats, half_open_calls, now, obs>>

bridgeVars == <<closed, request_id, pending, reader_task, calls, close_pc,
                wire, child, dropped>>

supVars == <<servers, info, processes, bridges, bobj, children, next_pid,
             running, loop_pc, task, dead_passes>>

cacheVars == <<max_size, default_ttl, cache, cstats, hist>>

svcVars == <<max_size, default_ttl, cache, cstats, hist, ecalls>>

regVars == <<registry, reg_call>>

proxyVars == <<proxy>>

llmVars == <<gen>>

\* The variables of the components that are modelled on their own.
extVars == <<regVars, proxyVars, llmVars>>

vars == <<config, stats, half_open_calls, now, obs,
          closed, request_id, pending, reader_task, calls, close_pc,
          wire, child, dropped,
          servers, info, processes, bridges, bobj, children, next_pid,
          running, loop_pc, task, dead_passes,
          max_size, default_ttl, cache, cstats, hist, ecalls,
          registry, reg_call, proxy, gen>>

(***************************************************************************)
(* CircuitBreaker                                                          *)
(***************************************************************************)
CLOSED == "closed"
OPEN == "open"
HALF_OPEN == "half_open"

CircuitState == {CLOSED, OPEN, HALF_OPEN}

\* last_failure_time / last_success_time before the first failure / success.
None == -1

\* CircuitBreakerConfig, its fields drawn from small ranges.
CircuitBreakerConfig ==
    [failure_threshold : 1..MaxThreshold,
     recovery_timeout : 1..MaxRecoveryTimeout,
     half_open_max_calls : 1..MaxHalfOpenCalls,
     success_threshold : 1..MaxSuccessThreshold]

\* CircuitBreakerStats(): the statistics of a new or a reset breaker.
CircuitBreakerStats ==
    [state |-> CLOSED, failure_count |-> 0, success_count |-> 0,
     last_failure_time |-> None, last_success_time |-> None,
     total_failures |-> 0, total_successes |-> 0, times_opened |-> 0]

\* What the history variable holds when nothing has been observed: the
\* check() calls admitted and the successes recorded since the breaker last
\* began to read HALF_OPEN, whether an outcome was recorded since then, and
\* whether reset() was ever called.
NoObs == [admitted |-> 0, successes |-> 0, outcome |-> FALSE,
          was_reset |-> FALSE]

\* A state accessor that forgets the recovery timeout.
StateIgnoringTimeout(st, t) ==
    IF st.state = OPEN /\ st.last_failure_time # None /\ st.last_failure_time # 0
    THEN HALF_OPEN
    ELSE st.state

\* The state property, read at time t from statistics st.
StateAt(st, t) ==
    IF /\ st.state = OPEN
       /\ st.last_failure_time # None /\ st.last_failure_time # 0
       /\ t - st.last_failure_time >= config.recovery_timeout
    THEN HALF_OPEN
    ELSE st.state

\* CircuitBreaker.state, now.
State == StateAt(stats, now)

\* A half-open quota check that is off by one.
QuotaLeftOffByOne(probes) == ~(probes > config.half_open_max_calls)

\* check() in HALF_OPEN: whether the probe quota admits one more call.
QuotaLeft(probes) == ~(probes >= config.half_open_max_calls)

\* A check() that only guards the half-open quota.
CheckAdmitsWhileOpen ==
    \/ State # HALF_OPEN
    \/ QuotaLeft(half_open_calls)

\* Whether check() returns (TRUE) or raises CircuitBreakerError (FALSE).
CheckAdmits ==
    \/ State = CLOSED
    \/ State = HALF_OPEN /\ QuotaLeft(half_open_calls)

\* A _transition_to that leaves the probe slots taken as they are.
TransitionKeepingProbes(st, probes, new_state) ==
    CASE new_state = CLOSED ->
           [stats |-> [st EXCEPT !.state = CLOSED, !.failure_count = 0,
                                 !.success_count = 0],
            calls |-> probes]
      [] new_state = OPEN ->
           [stats |-> [st EXCEPT !.state = OPEN,
                                 !.times_opened = st.times_opened + 1],
            calls |-> probes]
      [] OTHER ->
           [stats |-> [st EXCEPT !.state = HALF_OPEN, !.success_count = 0],
            calls |-> probes]

\* _transition_to(new_state), applied to statistics st: the new statistics
\* and the new _half_open_calls.
TransitionTo(st, probes, new_state) ==
    CASE new_state = CLOSED ->
           [stats |-> [st EXCEPT !.state = CLOSED, !.failure_count = 0,
                                 !.success_count = 0],
            calls |-> 0]
      [] new_state = OPEN ->
           [stats |-> [st EXCEPT !.state = OPEN,
                                 !.times_opened = st.times_opened + 1],
            calls |-> 0]
      [] OTHER ->
           [stats |-> [st EXCEPT !.state = HALF_OPEN, !.success_count = 0],
            calls |-> 0]

\* A failure threshold test that opens one failure late.
ReachedOffByOne(count, threshold) == count > threshold

\* The threshold tests of record_failure and record_success.
Reached(count, threshold) == count >= threshold

\* What the observer notes of a check().
ObsChecked ==
    IF State = HALF_OPEN /\ CheckAdmits
    THEN [obs EXCEPT !.admitted = obs.admitted + 1]
    ELSE obs

\* _half_open_calls after check().
ProbesChecked ==
    IF State = HALF_OPEN /\ CheckAdmits THEN half_open_calls + 1
    ELSE half_open_calls

\* check(): admit or raise; in HALF_OPEN an admitted call takes a probe slot.
Check ==
    /\ half_open_calls' = ProbesChecked
    /\ obs' = ObsChecked
    /\ UNCHANGED <<config, stats, now>>
    /\ UNCHANGED <<bridgeVars, supVars, svcVars, extVars>>

\* A record_success that starts the count of failures afresh.
SuccessClearsFailures(st, probes, t) ==
    LET counted == [st EXCEPT !.success_count = st.success_count + 1,
                              !.total_successes = st.total_successes + 1,
                              !.last_success_time = t,
                              !.failure_count = 0]
    IN IF /\ StateAt(st, t) = HALF_OPEN
          /\ Reached(counted.success_count, config.success_threshold)
       THEN TransitionTo(counted, probes, CLOSED)
       ELSE [stats |-> counted, calls |-> probes]

\* record_success() at time t on statistics st: the new statistics and the
\* new _half_open_calls.
SuccessRecorded(st, probes, t) ==
    LET counted == [st EXCEPT !.success_count = st.success_count + 1,
                              !.total_successes = st.total_successes + 1,
                              !.last_success_time = t]
    IN IF /\ StateAt(st, t) = HALF_OPEN
          /\ Reached(counted.success_count, config.success_threshold)
       THEN TransitionTo(counted, probes, CLOSED)
       ELSE [stats |-> counted, calls |-> probes]

\* A record_failure that counts the failure in failure_count only.
FailureCountedOnce(st, t) ==
    [st EXCEPT !.failure_count = st.failure_count + 1,
               !.last_failure_time = t]

\* The counters record_failure() updates first.
FailureCounted(st, t) ==
    [st EXCEPT !.failure_count = st.failure_count + 1,
               !.total_failures = st.total_failures + 1,
               !.last_failure_time = t]

\* record_failure() at time t on statistics st.
FailureRecorded(st, probes, t) ==
    LET counted == FailureCounted(st, t)
    IN IF \/ /\ StateAt(st, t) = CLOSED
             /\ Reached(counted.failure_count, config.failure_threshold)
          \/ StateAt(st, t) = HALF_OPEN
       THEN TransitionTo(counted, probes, OPEN)
       ELSE [stats |-> counted, calls |-> probes]

\* What the observer notes of a success and of a failure.
ObsSuccess ==
    IF State = HALF_OPEN
    THEN [obs EXCEPT !.successes = obs.successes + 1, !.outcome = TRUE]
    ELSE obs

ObsFailure ==
    IF State = HALF_OPEN THEN [obs EXCEPT !.outcome = TRUE] ELSE obs

\* record_success()
RecordSuccess ==
    /\ stats.total_successes < MaxRecorded
    /\ stats' = SuccessRecorded(stats, half_open_calls, now).stats
    /\ half_open_calls' = SuccessRecorded(stats, half_open_calls, now).calls
    /\ obs' = ObsSuccess
    /\ UNCHANGED <<config, now>>
    /\ UNCHANGED <<bridgeVars, supVars, svcVars, extVars>>

\* record_failure()
RecordFailure ==
    /\ stats.total_failures < MaxRecorded
    /\ stats' = FailureRecorded(stats, half_open_calls, now).stats
    /\ half_open_calls' = FailureRecorded(stats, half_open_calls, now).calls
    /\ obs' = ObsFailure
    /\ UNCHANGED <<config, now>>
    /\ UNCHANGED <<bridgeVars, supVars, svcVars, extVars>>

\* A reset() that leaves the half-open probe count as it is.
ProbesKeptByReset == half_open_calls

\* _half_open_calls after reset().
ProbesReset == 0

\* reset()
Reset ==
    /\ stats' = CircuitBreakerStats
    /\ half_open_calls' = ProbesReset
    /\ obs' = [NoObs EXCEPT !.was_reset = TRUE]
    /\ UNCHANGED <<config, now>>
    /\ UNCHANGED <<bridgeVars, supVars, svcVars, extVars>>

\* The wall clock advances; a breaker that starts to read HALF_OPEN starts a
\* new half-open period for the observer.
Tick ==
    /\ now < MaxTime
    /\ now' = now + 1
    /\ obs' = IF State = OPEN /\ StateAt(stats, now + 1) = HALF_OPEN
              THEN [NoObs EXCEPT !.was_reset = obs.was_reset] ELSE obs
    /\ UNCHANGED <<config, stats, half_open_calls>>
    /\ UNCHANGED <<bridgeVars, supVars, svcVars, extVars>>

\* A breaker whose callers fail until it opens, once, and whose half-open
\* probes all succeed: record_failure() by a call admitted while CLOSED ...
FailsUntilOpen ==
    /\ stats.times_opened = 0
    /\ State = CLOSED
    /\ RecordFailure

\* ... and record_success() by a probe that check() admitted in HALF_OPEN and
\* that has not reported yet.
ProbeSucceeds ==
    /\ State = HALF_OPEN
    /\ obs.admitted > obs.successes
    /\ RecordSuccess

RecoveryNext ==
    \/ FailsUntilOpen
    \/ Check
    \/ ProbeSucceeds
    \/ Tick

\* A breaker that nothing uses: the default configuration's shape.
BreakerIdle ==
    /\ config = [failure_threshold |-> 1, recovery_timeout |-> 1,
                 half_open_max_calls |-> 1, success_threshold |-> 1]
    /\ stats = CircuitBreakerStats
    /\ half_open_calls = 0
    /\ now = 1
    /\ obs = NoObs

BreakerInit ==
    /\ config \in CircuitBreakerConfig
    /\ stats = CircuitBreakerStats
    /\ half_open_calls = 0
    /\ now = 1
    /\ obs = NoObs

BreakerNext ==
    \/ Check
    \/ RecordSuccess
    \/ RecordFailure
    \/ Reset
    \/ Tick

(***************************************************************************)
(* StdioBridge: one bridge, the coroutines that call send() and close()    *)
(* on it, its reader task and the child process behind the pipes.          *)
(***************************************************************************)
Callers == {"c1", "c2", "c3"}

\* A line without an "id" member (a notification, or not a JSON object).
NoId == -1

\* An id the bridge never issues (ids start at 1).
UnknownId == 0

\* A send() that has not been called.
NoCall == [pc |-> "idle", id |-> NoId, future |-> "none", got |-> NoId,
           outcome |-> "none"]

\* The lines a child may write that answer no request: a notification, a
\* response with an id that is not pending, a line that is not JSON, a blank
\* line.
NoiseLines ==
    {[kind |-> "notification", id |-> NoId],
     [kind |-> "response", id |-> UnknownId],
     [kind |-> "garbage", id |-> NoId],
     [kind |-> "blank", id |-> NoId]}

\* The send() calls that hold an entry of _pending.
InFlight == {c \in Callers : calls[c].pc \in {"drain", "wait"}}

\* A reader that hands a response to the oldest pending request, whatever
\* id the response carries.
MatchedOldest(response_id) ==
    {c \in InFlight : \A d \in InFlight : calls[c].id <= calls[d].id}

\* _read_loop: the call whose future self._pending[response_id] is.
Matched(response_id) ==
    {c \in InFlight : calls[c].id = response_id}

\* A send() that forgets to remove its entry.
KeepPending(id) == pending

\* send(), finally: self._pending.pop(request_id, None)
PopPending(id) == pending \ {id}

\* A send() that reads _request_id and does not advance it past 1.
IssuedIdNotAdvanced == IF request_id = 0 THEN 1 ELSE request_id

\* send(), under the lock: self._request_id += 1; request_id = self._request_id
IssuedId == request_id + 1

\* send() up to its first suspension: refuse a closed bridge; start the
\* reader; issue an id; register the future; write the request and drain.
\* The write reaches a live child; drain() returns, suspends (a full pipe)
\* or, the child gone, raises.
SendCall(c) ==
    /\ calls[c].pc = "idle"
    /\ IF closed
       THEN /\ calls' = [calls EXCEPT ![c].pc = "done", ![c].outcome = "Closed"]
            /\ UNCHANGED <<request_id, pending, reader_task, child>>
       ELSE LET id == IssuedId IN
            /\ reader_task' = IF reader_task = "none" THEN "running"
                              ELSE reader_task
            /\ request_id' = id
            /\ \/ /\ \E next \in {"drain", "wait"} :
                        calls' = [calls EXCEPT ![c] =
                                    [pc |-> next, id |-> id, future |-> "pending",
                                     got |-> NoId, outcome |-> "none"]]
                  /\ pending' = pending \cup {id}
                  /\ child' = IF child.alive
                              THEN [child EXCEPT !.got = child.got \cup {id}]
                              ELSE child
               \/ /\ ~child.alive
                  /\ calls' = [calls EXCEPT ![c] =
                                 [pc |-> "done", id |-> id, future |-> "pending",
                                  got |-> NoId, outcome |-> "SendFailed"]]
                  /\ pending' = PopPending(id)
                  /\ UNCHANGED child
    /\ UNCHANGED <<closed, close_pc, wire, dropped>>
    /\ UNCHANGED <<breakerVars, supVars, svcVars, extVars>>

\* A send_notification that does not look at _closed.
NotifyUnguarded == FALSE

\* The test `if self._closed` of send_notification.
NotifyRefused == closed

\* send_notification() up to its first suspension: refuse a closed bridge;
\* write the notification (no id, no future) and drain.  drain() returns,
\* suspends or, the child gone, raises.
SendNotification(c) ==
    /\ calls[c].pc = "idle"
    /\ IF NotifyRefused
       THEN /\ calls' = [calls EXCEPT ![c].pc = "notified",
                                      ![c].outcome = "Closed"]
            /\ UNCHANGED child
       ELSE \/ /\ child.alive
               /\ \/ calls' = [calls EXCEPT ![c].pc = "notified",
                                            ![c].outcome = "sent"]
                  \/ calls' = [calls EXCEPT ![c].pc = "ndrain"]
               /\ child' = [child EXCEPT !.notified = TRUE]
            \/ /\ ~child.alive
               /\ calls' = [calls EXCEPT ![c].pc = "notified",
                                         ![c].outcome = "SendFailed"]
               /\ UNCHANGED child
    /\ UNCHANGED <<closed, request_id, pending, reader_task, close_pc, wire,
                   dropped>>
    /\ UNCHANGED <<breakerVars, supVars, svcVars, extVars>>

\* send_notification(): drain() returns and the call ends.
NotifyDrained(c) ==
    /\ calls[c].pc = "ndrain"
    /\ calls' = [calls EXCEPT ![c].pc = "notified", ![c].outcome = "sent"]
    /\ UNCHANGED <<closed, request_id, pending, reader_task, close_pc, wire,
                   child, dropped>>
    /\ UNCHANGED <<breakerVars, supVars, svcVars, extVars>>

\* send(): drain() returns and the call goes on to wait for its future.
DrainDone(c) ==
    /\ calls[c].pc = "drain"
    /\ calls' = [calls EXCEPT ![c].pc = "wait"]
    /\ UNCHANGED <<closed, request_id, pending, reader_task, close_pc, wire,
                   child, dropped>>
    /\ UNCHANGED <<breakerVars, supVars, svcVars, extVars>>

\* send(): wait_for(future) ends because the future is done: with the
\* response, or, the future cancelled by close(), with CancelledError, which
\* is no Exception and leaves send() as it is.
SendReturn(c) ==
    /\ calls[c].pc = "wait"
    /\ calls[c].future \in {"result", "closed_cancel"}
    /\ calls' = [calls EXCEPT
                   ![c].pc = "done",
                   ![c].outcome = IF calls[c].future = "result" THEN "response"
                                  ELSE "CancelledError"]
    /\ pending' = PopPending(calls[c].id)
    /\ UNCHANGED <<closed, request_id, reader_task, close_pc, wire, child,
                   dropped>>
    /\ UNCHANGED <<breakerVars, supVars, svcVars, extVars>>

\* send(): the timeout passes with the future not done: wait_for cancels the
\* future and raises TimeoutError.
SendTimeout(c) ==
    /\ calls[c].pc = "wait"
    /\ calls[c].future = "pending"
    /\ calls' = [calls EXCEPT ![c].pc = "done", ![c].future = "timeout_cancel",
                              ![c].outcome = "Timeout"]
    /\ pending' = PopPending(calls[c].id)
    /\ UNCHANGED <<closed, request_id, reader_task, close_pc, wire, child,
                   dropped>>
    /\ UNCHANGED <<breakerVars, supVars, svcVars, extVars>>

\* _read_loop, one line: a JSON object whose id is pending resolves that
\* future unless it is done; anything else is dropped.
ReaderRead ==
    /\ reader_task = "running"
    /\ ~closed
    /\ wire # <<>>
    /\ LET line == Head(wire)
           hit == /\ line.kind \in {"response", "notification"}
                  /\ line.id # NoId
                  /\ line.id \in pending
       IN /\ wire' = Tail(wire)
          /\ calls' = IF hit
                      THEN [c \in Callers |->
                              IF c \in Matched(line.id) /\ calls[c].future = "pending"
                              THEN [calls[c] EXCEPT !.future = "result",
                                                    !.got = line.id]
                              ELSE calls[c]]
                      ELSE calls
          /\ dropped' = IF hit THEN dropped ELSE dropped \cup {line.id}
    /\ UNCHANGED <<closed, request_id, pending, reader_task, close_pc, child>>
    /\ UNCHANGED <<breakerVars, supVars, svcVars, extVars>>

\* _read_loop: readline() returns nothing, the child having closed its
\* stdout: the loop ends.
ReaderEOF ==
    /\ reader_task = "running"
    /\ ~child.alive
    /\ wire = <<>>
    /\ reader_task' = "done"
    /\ UNCHANGED <<closed, request_id, pending, calls, close_pc, wire, child,
                   dropped>>
    /\ UNCHANGED <<breakerVars, supVars, svcVars, extVars>>

\* close(), its last part: forget the reader, cancel the futures that are
\* not done, clear _pending.
CloseEffects ==
    /\ reader_task' = "none"
    /\ calls' = [c \in Callers |->
                   IF calls[c].id \in pending /\ calls[c].future = "pending"
                   THEN [calls[c] EXCEPT !.future = "closed_cancel"]
                   ELSE calls[c]]
    /\ pending' = {}

\* close() up to its first suspension: mark the bridge closed and cancel the
\* reader; a reader that is running is awaited, one that is absent or has
\* ended is not.
CloseCall ==
    /\ close_pc = "idle"
    /\ closed' = TRUE
    /\ IF reader_task = "running"
       THEN /\ reader_task' = "cancelled"
            /\ close_pc' = "await_reader"
            /\ UNCHANGED <<calls, pending>>
       ELSE /\ CloseEffects
            /\ close_pc' = "idle"
    /\ UNCHANGED <<request_id, wire, child, dropped>>
    /\ UNCHANGED <<breakerVars, supVars, svcVars, extVars>>

\* close() after the cancelled reader has ended.
CloseFinish ==
    /\ close_pc = "await_reader"
    /\ CloseEffects
    /\ close_pc' = "idle"
    /\ UNCHANGED <<closed, request_id, wire, child, dropped>>
    /\ UNCHANGED <<breakerVars, supVars, svcVars, extVars>>

\* The child answers a request it has read, in any order.
ChildReply(i) ==
    /\ child.alive
    /\ i \in child.got \ child.replied
    /\ Len(wire) < MaxWire
    /\ wire' = Append(wire, [kind |-> "response", id |-> i])
    /\ child' = [child EXCEPT !.replied = child.replied \cup {i}]
    /\ UNCHANGED <<closed, request_id, pending, reader_task, calls, close_pc,
                   dropped>>
    /\ UNCHANGED <<breakerVars, supVars, svcVars, extVars>>

\* The child writes a line that answers nothing.
ChildNoise(line) ==
    /\ child.alive
    /\ child.noise < MaxNoise
    /\ Len(wire) < MaxWire
    /\ wire' = Append(wire, line)
    /\ child' = [child EXCEPT !.noise = child.noise + 1]
    /\ UNCHANGED <<closed, request_id, pending, reader_task, calls, close_pc,
                   dropped>>
    /\ UNCHANGED <<breakerVars, supVars, svcVars, extVars>>

\* The child exits.
ChildExit ==
    /\ child.alive
    /\ child' = [child EXCEPT !.alive = FALSE]
    /\ UNCHANGED <<closed, request_id, pending, reader_task, calls, close_pc,
                   wire, dropped>>
    /\ UNCHANGED <<breakerVars, supVars, svcVars, extVars>>



\* StdioBridge(process, name) over the pipes of a child just spawned.
BridgeInit ==
    /\ closed = FALSE
    /\ request_id = 0
    /\ pending = {}
    /\ reader_task = "none"
    /\ calls = [c \in Callers |-> NoCall]
    /\ close_pc = "idle"
    /\ wire = <<>>
    /\ child = [alive |-> TRUE, got |-> {}, replied |-> {}, noise |-> 0,
                notified |-> FALSE]
    /\ dropped = {}

BridgeNext ==
    \/ \E c \in Callers : SendCall(c)
    \/ \E c \in Callers : DrainDone(c)
    \/ \E c \in Callers : SendReturn(c)
    \/ \E c \in Callers : SendTimeout(c)
    \/ \E c \in Callers : SendNotification(c)
    \/ \E c \in Callers : NotifyDrained(c)
    \/ ReaderRead
    \/ ReaderEOF
    \/ CloseCall
    \/ CloseFinish
    \/ \E i \in 1..Cardinality(Callers) : ChildReply(i)
    \/ \E line \in NoiseLines : ChildNoise(line)
    \/ ChildExit

(***************************************************************************)
(* ServerRegistry, ProcessManager and Supervisor: the servers of the       *)
(* registry, the coroutines that call start_server, stop_server,           *)
(* restart_server and Supervisor.stop (the management endpoints, the       *)
(* dispatcher's auto-start and the application's shutdown), the liveness   *)
(* loop and the child processes.  No server has auto_start set, so         *)
(* start_auto_servers starts nothing.                                      *)
(***************************************************************************)
Servers == {"s1", "s2"}

Tasks == {"t1", "t2"}

Pids == 1..MaxSpawns

STOPPED == "stopped"

STARTING == "starting"

RUNNING == "running"

FAILED == "failed"

STOPPING == "stopping"

ServerStatus == {STOPPED, STARTING, RUNNING, FAILED, STOPPING}

\* Python's None where the value is a string or an enum member.
NoneStr == "None"

ServerConfig == [restart_on_failure : BOOLEAN, max_restarts : 0..MaxRestarts]

ProcessInfo ==
    [pid |-> None, status |-> STOPPED, restart_count |-> 0,
     last_error |-> NoneStr]

\* registry.update_process_info: only the fields given as not None are set,
\* so passing pid=None or last_error=None leaves the field as it was.
update_process_info(i, pid, status, restart_count, last_error) ==
    [pid           |-> IF pid # None THEN pid ELSE i.pid,
     status        |-> IF status # NoneStr THEN status ELSE i.status,
     restart_count |-> IF restart_count # None THEN restart_count
                                               ELSE i.restart_count,
     last_error    |-> IF last_error # NoneStr THEN last_error
                                               ELSE i.last_error]

\* A StdioBridge object before it is constructed, and as __init__ and
\* start() leave it.
NoBridge == [made |-> FALSE, closed |-> FALSE, reader |-> "none"]

NewBridge == [made |-> TRUE, closed |-> FALSE, reader |-> "running"]

IdleTask ==
    [op |-> "none", srv |-> "none", pc |-> "idle", proc |-> None,
     br |-> None, todo_b |-> <<>>, todo_n |-> <<>>, result |-> "none"]

\* The part of the state the coroutines of the supervisor write.
W == [processes |-> processes, info |-> info, bridges |-> bridges,
      bobj |-> bobj]

\* How a stretch of a coroutine ends: the call returns or raises ...
Finish(w, s, res) ==
    [w |-> w, srv |-> s, pc |-> "idle", proc |-> None, br |-> None,
     todo_b |-> <<>>, todo_n |-> <<>>, result |-> res]

\* ... or it awaits something that is not ready.
Suspend(w, s, pc, proc, br, todo_b, todo_n) ==
    [w |-> w, srv |-> s, pc |-> pc, proc |-> proc, br |-> br,
     todo_b |-> todo_b, todo_n |-> todo_n, result |-> "none"]

RECURSIVE Ascending(_)
Ascending(S) ==
    IF S = {} THEN <<>>
    ELSE LET m == CHOOSE x \in S : \A y \in S : x <= y
         IN <<m>> \o Ascending(S \ {m})

\* list(self._processes.keys()): the names that have a handle, oldest
\* handle first.
ProcessKeys(w) ==
    LET pids == Ascending({w.processes[s] : s \in Servers} \ {None})
    IN [i \in 1..Len(pids) |-> CHOOSE s \in Servers : w.processes[s] = pids[i]]

\* list(self._bridges.items()): the bridges registered, oldest first.
BridgeItems(w) == Ascending({w.bridges[s] : s \in Servers} \ {None})

is_running(w, s) ==
    /\ w.processes[s] # None
    /\ children[w.processes[s]] = "alive"

get_running_servers(w) == {s \in Servers : is_running(w, s)}

\* What check_process finds first: no handle, or a handle with a
\* returncode, is a death; otherwise the server is alive.
check_process_alive(w, s) ==
    /\ w.processes[s] # None
    /\ children[w.processes[s]] # "exited"

\* A start that does not look for a live child first.
PMStartUnchecked(w, s) ==
    Suspend([w EXCEPT !.processes[s] = None,
                      !.info[s] = update_process_info(@, None, STARTING,
                                                       None, NoneStr)],
            s, "spawn", None, None, <<>>, <<>>)

\* ProcessManager.start up to the await of create_subprocess_exec.
PMStart(w, s) ==
    IF is_running(w, s)
    THEN Finish(w, s, "ValueError")
    ELSE Suspend([w EXCEPT !.processes[s] = None,
                           !.info[s] = update_process_info(@, None, STARTING,
                                                            None, NoneStr)],
                 s, "spawn", None, None, <<>>, <<>>)

\* ProcessManager.stop up to the await of process.wait().  terminate()
\* raises ProcessLookupError when the child has already exited.
PMStop(w, s) ==
    IF w.processes[s] = None
    THEN [w |-> w, proc |-> None,
          res |-> IF w.info[s].status = STOPPED THEN "return"
                                                ELSE "ValueError"]
    ELSE [w |-> [w EXCEPT !.info[s] = update_process_info(@, None, STOPPING,
                                                           None, NoneStr)],
          proc |-> w.processes[s],
          res |-> IF children[w.processes[s]] = "alive"
                  THEN "wait" ELSE "ProcessLookupError"]

\* ProcessManager.stop after process.wait() has returned.
PMStopWaited(w, s) ==
    IF w.processes[s] = None
    THEN [w |-> w, res |-> "KeyError"]
    ELSE [w |-> [w EXCEPT !.processes[s] = None,
                          !.info[s] = update_process_info(@, None, STOPPED,
                                                           None, NoneStr)],
          res |-> "return"]

\* StdioBridge.close up to the await of the reader task ...
CloseBegin(w, b) ==
    [w EXCEPT !.bobj[b].closed = TRUE,
              !.bobj[b].reader = IF @ = "running" THEN "cancelled" ELSE @]

\* ... and the whole of it when the reader task has ended.
BridgeClosed(w, b) ==
    [w EXCEPT !.bobj[b].closed = TRUE, !.bobj[b].reader = "none"]

ReaderPending(w, b) == w.bobj[b].reader \in {"running", "cancelled"}

\* stop_server after ProcessManager.stop has returned; restart_server goes
\* on into start_server.
StopServerDone(op, w, s) ==
    LET w1 == [w EXCEPT !.info[s] = update_process_info(@, None, NoneStr, 0,
                                                         NoneStr)]
    IN IF op = "restart_server" THEN PMStart(w1, s) ELSE Finish(w1, s, "ok")

\* stop_server from the call of ProcessManager.stop.
StopServerProcess(op, w, s) ==
    LET r == PMStop(w, s)
    IN CASE r.res = "return" -> StopServerDone(op, r.w, s)
         [] r.res = "wait"   -> Suspend(r.w, s, "term_wait", r.proc, None,
                                        <<>>, <<>>)
         [] OTHER            -> Finish(r.w, s, r.res)

\* stop_server from `del self._bridges[name]`.
StopServerDel(op, w, s) ==
    IF w.bridges[s] = None
    THEN Finish(w, s, "KeyError")
    ELSE StopServerProcess(op, [w EXCEPT !.bridges[s] = None], s)

StopServerBegin(op, w, s) ==
    IF w.bridges[s] = None
    THEN StopServerProcess(op, w, s)
    ELSE IF ReaderPending(w, w.bridges[s])
         THEN Suspend(CloseBegin(w, w.bridges[s]), s, "close_wait", None,
                      w.bridges[s], <<>>, <<>>)
         ELSE StopServerDel(op, BridgeClosed(w, w.bridges[s]), s)

\* ProcessManager.stop_all over the names left; an exception of stop is
\* logged and the loop goes on.
RECURSIVE StopAll(_, _)
StopAll(w, names) ==
    IF names = <<>>
    THEN Finish(w, "none", "ok")
    ELSE LET r == PMStop(w, Head(names))
         IN IF r.res = "wait"
            THEN Suspend(r.w, Head(names), "term_wait", r.proc, None, <<>>,
                         Tail(names))
            ELSE StopAll(r.w, Tail(names))

\* Supervisor.stop from the loop over the bridges: close those left, clear
\* the map, stop all processes.
RECURSIVE CloseAll(_, _)
CloseAll(w, todo) ==
    IF todo = <<>>
    THEN LET w1 == [w EXCEPT !.bridges = [s \in Servers |-> None]]
         IN StopAll(w1, ProcessKeys(w1))
    ELSE IF ReaderPending(w, Head(todo))
         THEN Suspend(CloseBegin(w, Head(todo)), "none", "close_wait", None,
                      Head(todo), Tail(todo), <<>>)
         ELSE CloseAll(BridgeClosed(w, Head(todo)), Tail(todo))

\* The coroutine t goes on as k says; a call that has ended leaves only its
\* result behind.
Resume(t, op, k) ==
    /\ processes' = k.w.processes
    /\ info' = k.w.info
    /\ bridges' = k.w.bridges
    /\ bobj' = k.w.bobj
    /\ task' = [task EXCEPT ![t] =
                   [op |-> IF k.pc = "idle" THEN "none" ELSE op,
                    srv |-> IF k.pc = "idle" THEN "none" ELSE k.srv,
                    pc |-> k.pc, proc |-> k.proc,
                    br |-> k.br, todo_b |-> k.todo_b, todo_n |-> k.todo_n,
                    result |-> k.result]]

\* The calls that may still spawn a child, so that pids stay in Pids.
Spawning ==
    {t \in Tasks : /\ task[t].op \in {"start_server", "restart_server"}
                   /\ task[t].pc \notin {"idle", "init"}}

SpawnBudget == (next_pid - 1) + Cardinality(Spawning) < MaxSpawns

\* Supervisor.start_server is called.
CallStartServer(t, s) ==
    /\ task[t].pc = "idle"
    /\ SpawnBudget
    /\ Resume(t, "start_server", PMStart(W, s))
    /\ UNCHANGED <<servers, children, next_pid, running, loop_pc, dead_passes>>
    /\ UNCHANGED <<breakerVars, bridgeVars, svcVars, extVars>>

\* create_subprocess_exec returns the child: the handle is tracked, the
\* status becomes RUNNING, start_server builds the bridge, starts its reader
\* and awaits the answer to initialize.
SpawnOk(t) ==
    /\ task[t].pc = "spawn"
    /\ next_pid \in Pids
    /\ LET s == task[t].srv
           p == next_pid
           w1 == [W EXCEPT !.processes[s] = p,
                           !.info[s] = update_process_info(@, p, RUNNING,
                                                           None, NoneStr),
                           !.bobj[p] = NewBridge]
       IN /\ Resume(t, task[t].op, Suspend(w1, s, "init", None, p, <<>>, <<>>))
          /\ children' = [children EXCEPT ![p] = "alive"]
          /\ next_pid' = p + 1
          /\ dead_passes' = [dead_passes EXCEPT ![s] = 0]
    /\ UNCHANGED <<servers, running, loop_pc>>
    /\ UNCHANGED <<breakerVars, bridgeVars, svcVars, extVars>>

\* create_subprocess_exec raises: FAILED, and RuntimeError to the caller.
SpawnFail(t) ==
    /\ task[t].pc = "spawn"
    /\ LET s == task[t].srv
           w1 == [W EXCEPT !.info[s] = update_process_info(@, None, FAILED,
                                                           None, "start_failed")]
       IN Resume(t, task[t].op, Finish(w1, s, "RuntimeError"))
    /\ UNCHANGED <<servers, children, next_pid, running, loop_pc, dead_passes>>
    /\ UNCHANGED <<breakerVars, bridgeVars, svcVars, extVars>>

\* bridge.initialize() returns or raises (the exception is swallowed):
\* start_server registers the bridge and returns.
InitDone(t) ==
    /\ task[t].pc = "init"
    /\ LET s == task[t].srv
       IN Resume(t, task[t].op,
                 Finish([W EXCEPT !.bridges[s] = task[t].br], s, "ok"))
    /\ UNCHANGED <<servers, children, next_pid, running, loop_pc, dead_passes>>
    /\ UNCHANGED <<breakerVars, bridgeVars, svcVars, extVars>>

\* Supervisor.stop_server is called.
CallStopServer(t, s) ==
    /\ task[t].pc = "idle"
    /\ Resume(t, "stop_server", StopServerBegin("stop_server", W, s))
    /\ UNCHANGED <<servers, children, next_pid, running, loop_pc, dead_passes>>
    /\ UNCHANGED <<breakerVars, bridgeVars, svcVars, extVars>>

\* Supervisor.restart_server is called.
CallRestartServer(t, s) ==
    /\ task[t].pc = "idle"
    /\ SpawnBudget
    /\ Resume(t, "restart_server", StopServerBegin("restart_server", W, s))
    /\ UNCHANGED <<servers, children, next_pid, running, loop_pc, dead_passes>>
    /\ UNCHANGED <<breakerVars, bridgeVars, svcVars, extVars>>

\* The reader task a close() awaits has ended: close() finishes and its
\* caller goes on.
CloseWaited(t) ==
    /\ task[t].pc = "close_wait"
    /\ LET w1 == BridgeClosed(W, task[t].br)
       IN IF task[t].op = "stop"
          THEN Resume(t, "stop", CloseAll(w1, task[t].todo_b))
          ELSE Resume(t, task[t].op, StopServerDel(task[t].op, w1, task[t].srv))
    /\ UNCHANGED <<servers, children, next_pid, running, loop_pc, dead_passes>>
    /\ UNCHANGED <<breakerVars, bridgeVars, svcVars, extVars>>

\* process.wait() returns in ProcessManager.stop: the handle is deleted,
\* the status becomes STOPPED and the caller goes on.
TermWaited(t) ==
    /\ task[t].pc = "term_wait"
    /\ children[task[t].proc] = "exited"
    /\ LET r == PMStopWaited(W, task[t].srv)
       IN IF task[t].op = "stop"
          THEN Resume(t, "stop", StopAll(r.w, task[t].todo_n))
          ELSE IF r.res = "return"
               THEN Resume(t, task[t].op,
                           StopServerDone(task[t].op, r.w, task[t].srv))
               ELSE Resume(t, task[t].op, Finish(r.w, task[t].srv, r.res))
    /\ UNCHANGED <<servers, children, next_pid, running, loop_pc, dead_passes>>
    /\ UNCHANGED <<breakerVars, bridgeVars, svcVars, extVars>>

\* Supervisor.start: the liveness loop is created.
SupervisorStart ==
    /\ ~running
    /\ loop_pc = "none"
    /\ running' = TRUE
    /\ loop_pc' = "sleep"
    /\ UNCHANGED <<servers, info, processes, bridges, bobj, children, next_pid,
                   task, dead_passes>>
    /\ UNCHANGED <<breakerVars, bridgeVars, svcVars, extVars>>

\* Supervisor.stop is called: the loop is cancelled and awaited.
CallSupervisorStop(t) ==
    /\ task[t].pc = "idle"
    /\ running' = FALSE
    /\ IF loop_pc # "none"
       THEN /\ loop_pc' = "cancelled"
            /\ Resume(t, "stop",
                      Suspend(W, "none", "loop_wait", None, None, <<>>, <<>>))
       ELSE /\ loop_pc' = loop_pc
            /\ Resume(t, "stop", CloseAll(W, BridgeItems(W)))
    /\ UNCHANGED <<servers, children, next_pid, dead_passes>>
    /\ UNCHANGED <<breakerVars, bridgeVars, svcVars, extVars>>

\* The cancelled loop has ended: Supervisor.stop goes on.
LoopCancelled(t) ==
    /\ task[t].pc = "loop_wait"
    /\ loop_pc' = "none"
    /\ Resume(t, "stop", CloseAll(W, BridgeItems(W)))
    /\ UNCHANGED <<servers, children, next_pid, running, dead_passes>>
    /\ UNCHANGED <<breakerVars, bridgeVars, svcVars, extVars>>

\* One wake-up of _health_check_loop: _check_all_servers takes the names
\* get_running_servers returns and calls _check_server for each.  A server
\* found alive makes _check_server return without awaiting anything; one
\* found dead makes check_process await the child's stderr.
LoopPass ==
    /\ running
    /\ loop_pc = "sleep"
    /\ loop_pc' = IF \E s \in get_running_servers(W) : ~check_process_alive(W, s)
                  THEN "stderr_read" ELSE "sleep"
    /\ dead_passes' =
          [s \in Servers |->
              IF /\ info[s].status = RUNNING
                 /\ processes[s] # None
                 /\ children[processes[s]] = "exited"
                 /\ dead_passes[s] < MaxPasses
              THEN dead_passes[s] + 1 ELSE dead_passes[s]]
    /\ UNCHANGED <<servers, info, processes, bridges, bobj, children, next_pid,
                   running, task>>
    /\ UNCHANGED <<breakerVars, bridgeVars, svcVars, extVars>>

\* A child process exits.
ProcessExit(p) ==
    /\ children[p] = "alive"
    /\ children' = [children EXCEPT ![p] = "exited"]
    /\ UNCHANGED <<servers, info, processes, bridges, bobj, next_pid, running,
                   loop_pc, task, dead_passes>>
    /\ UNCHANGED <<breakerVars, bridgeVars, svcVars, extVars>>

\* The reader of a bridge finds the end of its child's stdout and ends.
ReaderEnds(b) ==
    /\ bobj[b].reader = "running"
    /\ children[b] = "exited"
    /\ bobj' = [bobj EXCEPT ![b].reader = "done"]
    /\ UNCHANGED <<servers, info, processes, bridges, children, next_pid,
                   running, loop_pc, task, dead_passes,
          max_size, default_ttl, cache, cstats, hist, ecalls>>
    /\ UNCHANGED <<breakerVars, bridgeVars, svcVars, extVars>>

\* The supervisor before anything is started, for the given configurations.
SupervisorWith(configs) ==
    /\ servers \in configs
    /\ info = [s \in Servers |-> ProcessInfo]
    /\ processes = [s \in Servers |-> None]
    /\ bridges = [s \in Servers |-> None]
    /\ bobj = [p \in Pids |-> NoBridge]
    /\ children = [p \in Pids |-> "unborn"]
    /\ next_pid = 1
    /\ running = FALSE
    /\ loop_pc = "none"
    /\ task = [t \in Tasks |-> IdleTask]
    /\ dead_passes = [s \in Servers |-> 0]

\* Every server with restart_on_failure at ServerConfig's default and the
\* cap at the model's bound.
SupervisorInit ==
    SupervisorWith({[s \in Servers |->
                       [restart_on_failure |-> TRUE,
                        max_restarts |-> MaxRestarts]]})

SupervisorNext ==
    \/ \E t \in Tasks, s \in Servers : CallStartServer(t, s)
    \/ \E t \in Tasks : SpawnOk(t)
    \/ \E t \in Tasks : SpawnFail(t)
    \/ \E t \in Tasks : InitDone(t)
    \/ \E t \in Tasks, s \in Servers : CallStopServer(t, s)
    \/ \E t \in Tasks, s \in Servers : CallRestartServer(t, s)
    \/ \E t \in Tasks : CloseWaited(t)
    \/ \E t \in Tasks : TermWaited(t)
    \/ SupervisorStart
    \/ \E t \in Tasks : CallSupervisorStop(t)
    \/ \E t \in Tasks : LoopCancelled(t)
    \/ LoopPass
    \/ \E p \in Pids : ProcessExit(p)
    \/ \E b \in Pids : ReaderEnds(b)

\* A server that is started once by hand and then left to the liveness
\* loop, its child exiting whenever it will.
FirstStart(t, s) ==
    /\ info[s] = ProcessInfo
    /\ CallStartServer(t, s)

CrashLoopInit ==
    SupervisorWith([Servers -> {c \in ServerConfig : c.restart_on_failure}])

CrashLoopNext ==
    \/ \E t \in Tasks, s \in Servers : FirstStart(t, s)
    \/ \E t \in Tasks : SpawnOk(t)
    \/ \E t \in Tasks : InitDone(t)
    \/ SupervisorStart
    \/ LoopPass
    \/ \E p \in Pids : ProcessExit(p)
    \/ \E b \in Pids : ReaderEnds(b)

(***************************************************************************)
(* MemoryCache and EnhancementCache.  Every method takes the lock and      *)
(* awaits nothing while it holds it, so each call is one step.  Cache keys *)
(* are modelled by the data make_cache_key hashes.                         *)
(***************************************************************************)
Prompts == {"p", "q"}

\* The client names a caller may give: none, and a name whose rule disables
\* enhancement.
Clients == {NoneStr, "off"}

\* EnhancementRule.model of the rule every client gets.
RuleModel == "llama3.2:3b"

\* A cache key that leaves the prompt out.
CacheKeyWithoutPrompt(prompt, client_name, model) ==
    <<"p",
      IF client_name = NoneStr THEN "default" ELSE client_name,
      IF model = NoneStr THEN "default" ELSE model>>

\* make_cache_key of the dictionary get_enhanced and set_enhanced build.
make_cache_key(prompt, client_name, model) ==
    <<prompt,
      IF client_name = NoneStr THEN "default" ELSE client_name,
      IF model = NoneStr THEN "default" ELSE model>>

CacheKeys ==
    {make_cache_key(pr, cl, RuleModel) : pr \in Prompts, cl \in Clients}

\* The strings stored through set(): the empty string, an enhanced prompt.
CacheValues == {"", "P+"}

\* CacheStats(max_size=max_size)
CacheStats == [hits |-> 0, misses |-> 0, size |-> 0, evictions |-> 0]

\* Nothing done yet: the get() calls made, the new keys inserted, the
\* entries removed by delete, clear or expiry, and the stored keys by their
\* last use, oldest first.
NoHist == [gets |-> 0, inserted |-> 0, removed |-> 0, recent |-> <<>>]

\* The cache object, as the methods read and write it.
K == [cache |-> cache, stats |-> cstats, hist |-> hist]

\* The position of key in the entries, 0 when absent.
IndexOf(entries, key) ==
    IF \E i \in 1..Len(entries) : entries[i].key = key
    THEN CHOOSE i \in 1..Len(entries) : entries[i].key = key
    ELSE 0

RemoveAt(seq, i) ==
    [j \in 1..(Len(seq) - 1) |-> IF j < i THEN seq[j] ELSE seq[j + 1]]

\* A cache that does not reorder its entries on use.
KeepInPlace(seq, i) == seq

\* OrderedDict.move_to_end
MoveToEnd(seq, i) == Append(RemoveAt(seq, i), seq[i])

Without(keys, key) == SelectSeq(keys, LAMBDA x : x # key)

KeysOf(entries) == {entries[i].key : i \in 1..Len(entries)}

\* The TTL test of get and cleanup_expired.
Expired(e, t) == e.ttl # None /\ (t - e.created_at) > e.ttl

\* An expired access that is deleted without being counted.
ExpiredUncounted(st, size) == [st EXCEPT !.size = size]

\* get on an expired entry: self._stats.misses += 1 and the new size.
ExpiredMiss(st, size) == [st EXCEPT !.misses = @ + 1, !.size = size]

\* MemoryCache.get at time t: the cache afterwards and the value returned
\* (NoneStr for None).
get(k, key, t) ==
    LET i == IndexOf(k.cache, key)
        counted == [k.hist EXCEPT !.gets = @ + 1]
    IN IF i = 0
       THEN [cache |-> k.cache,
             stats |-> [k.stats EXCEPT !.misses = @ + 1],
             hist |-> counted, value |-> NoneStr]
       ELSE IF Expired(k.cache[i], t)
            THEN [cache |-> RemoveAt(k.cache, i),
                  stats |-> ExpiredMiss(k.stats, Len(k.cache) - 1),
                  hist |-> [counted EXCEPT !.removed = @ + 1,
                                           !.recent = Without(@, key)],
                  value |-> NoneStr]
            ELSE [cache |-> MoveToEnd(k.cache, i),
                  stats |-> [k.stats EXCEPT !.hits = @ + 1],
                  hist |-> [counted EXCEPT !.recent = Append(Without(@, key), key)],
                  value |-> k.cache[i].value]

\* A set that makes room only while the cache is over its capacity.
EvictLate(k) ==
    IF Len(k.cache) > max_size
    THEN [k EXCEPT !.cache = Tail(@), !.stats.evictions = @ + 1,
                   !.hist.recent = Without(@, k.cache[1].key)]
    ELSE k

\* The eviction loop of set: while the cache is at capacity, pop the first
\* entry.
RECURSIVE Evict(_)
Evict(k) ==
    IF Len(k.cache) >= max_size
    THEN Evict([k EXCEPT !.cache = Tail(@), !.stats.evictions = @ + 1,
                         !.hist.recent = Without(@, k.cache[1].key)])
    ELSE k

\* MemoryCache.set at time t; ttl = None means the default.
set(k, key, value, ttl, t) ==
    LET e == [key |-> key, value |-> value, created_at |-> t,
              ttl |-> IF ttl = None THEN default_ttl ELSE ttl]
        i == IndexOf(k.cache, key)
    IN IF i # 0
       THEN [cache |-> MoveToEnd([k.cache EXCEPT ![i] = e], i),
             stats |-> k.stats,
             hist |-> [k.hist EXCEPT !.recent = Append(Without(@, key), key)]]
       ELSE LET r == Evict(k)
            IN [cache |-> Append(r.cache, e),
                stats |-> [r.stats EXCEPT !.size = Len(r.cache) + 1],
                hist |-> [r.hist EXCEPT !.inserted = @ + 1,
                                        !.recent = Append(@, key)]]

\* The calls of get, directly or through exists().
Get(key) ==
    /\ hist.gets < MaxGets
    /\ LET r == get(K, key, now)
       IN /\ cache' = r.cache
          /\ cstats' = r.stats
          /\ hist' = r.hist
    /\ UNCHANGED <<max_size, default_ttl, ecalls>>
    /\ UNCHANGED <<breakerVars, bridgeVars, supVars, extVars>>

\* exists(key): get(key) is not None.
Exists(key) == Get(key)

Set(key, value, ttl) ==
    /\ hist.inserted < MaxInserts
    /\ LET r == set(K, key, value, ttl, now)
       IN /\ cache' = r.cache
          /\ cstats' = r.stats
          /\ hist' = r.hist
    /\ UNCHANGED <<max_size, default_ttl, ecalls>>
    /\ UNCHANGED <<breakerVars, bridgeVars, supVars, extVars>>

Delete(key) ==
    /\ LET i == IndexOf(cache, key)
       IN IF i # 0
          THEN /\ cache' = RemoveAt(cache, i)
               /\ cstats' = [cstats EXCEPT !.size = Len(cache) - 1]
               /\ hist' = [hist EXCEPT !.removed = @ + 1,
                                       !.recent = Without(@, key)]
          ELSE UNCHANGED <<cache, cstats, hist>>
    /\ UNCHANGED <<max_size, default_ttl, ecalls>>
    /\ UNCHANGED <<breakerVars, bridgeVars, supVars, extVars>>

Clear ==
    /\ cache' = <<>>
    /\ cstats' = [cstats EXCEPT !.size = 0]
    /\ hist' = [hist EXCEPT !.removed = @ + Len(cache), !.recent = <<>>]
    /\ UNCHANGED <<max_size, default_ttl, ecalls>>
    /\ UNCHANGED <<breakerVars, bridgeVars, supVars, extVars>>

CleanupExpired ==
    /\ LET kept == SelectSeq(cache, LAMBDA e : ~Expired(e, now))
       IN /\ cache' = kept
          /\ cstats' = [cstats EXCEPT !.size = Len(kept)]
          /\ hist' = [hist EXCEPT !.removed = @ + (Len(cache) - Len(kept)),
                                  !.recent = SelectSeq(@, LAMBDA x : x \in KeysOf(kept))]
    /\ UNCHANGED <<max_size, default_ttl, ecalls>>
    /\ UNCHANGED <<breakerVars, bridgeVars, supVars, extVars>>

\* The wall clock advances under the cache and the service.
ServiceTick ==
    /\ now < MaxServiceTime
    /\ Tick

\* MemoryCache.__init__ with the given capacities and default TTLs.
CacheWith(sizes, ttls) ==
    /\ max_size \in sizes
    /\ default_ttl \in ttls
    /\ cache = <<>>
    /\ cstats = CacheStats
    /\ hist = NoHist

CacheInit == CacheWith(1..MaxCacheSize, 1..MaxTtl)

CacheNext ==
    \/ \E key \in CacheKeys : Get(key)
    \/ \E key \in CacheKeys : Exists(key)
    \/ \E key \in CacheKeys, value \in CacheValues, ttl \in {None} \cup 1..MaxTtl :
          Set(key, value, ttl)
    \/ \E key \in CacheKeys : Delete(key)
    \/ Clear
    \/ CleanupExpired
    \/ ServiceTick

(***************************************************************************)
(* EnhancementService: the enhance() calls of concurrent requests, its     *)
(* cache, its circuit breaker and the LLM behind it.  enhance() runs       *)
(* without interruption up to the await of the LLM's answer and again from *)
(* the answer to its return.  The breaker is the service's own:            *)
(* half_open_max_calls and success_threshold are the service's values,     *)
(* failure_threshold and recovery_timeout (3 and 30 s in the service) are  *)
(* drawn from the model's ranges, in clock ticks.                          *)
(***************************************************************************)
EnhCallers == {"e1", "e2"}

\* half_open_max_calls of the service's breaker.
ServiceHalfOpenMaxCalls == 1

\* success_threshold of the service's breaker (CircuitBreakerConfig's default).
ServiceSuccessThreshold == 1

\* EnhancementService.get_rule: the client "off" has a rule that disables
\* enhancement, every other client gets the default rule.
get_rule(client_name) ==
    [enabled |-> client_name # "off", model |-> RuleModel]

\* What the LLM may answer: blanks only, the prompt p again, an improved
\* prompt with blanks around it.
LLMResponses == {"  ", "p", " P+ "}

\* str.strip() on the LLM's answers.
strip(text) ==
    CASE text = "  "   -> ""
      [] text = " P+ " -> "P+"
      [] OTHER         -> text

\* The exceptions of OllamaClient.generate that enhance() tells apart.
LLMErrors == {"OllamaConnectionError", "OllamaError", "Exception"}

\* EnhancementResult; kind tells whether enhance() returned it or raised
\* (error is then the exception's type), path which return statement made it.
NoResult ==
    [kind |-> "none", path |-> "none", enhanced |-> NoneStr, model |-> NoneStr,
     cached |-> FALSE, enhanced_by_llm |-> FALSE, error |-> NoneStr]

\* A result whose error field is never filled in.
ResultWithoutError(path, enhanced, model, cached, enhanced_by_llm, error) ==
    [kind |-> "returned", path |-> path, enhanced |-> enhanced, model |-> model,
     cached |-> cached, enhanced_by_llm |-> enhanced_by_llm, error |-> NoneStr]

EnhancementResult(path, enhanced, model, cached, enhanced_by_llm, error) ==
    [kind |-> "returned", path |-> path, enhanced |-> enhanced, model |-> model,
     cached |-> cached, enhanced_by_llm |-> enhanced_by_llm, error |-> error]

NoEnhance ==
    [pc |-> "idle", prompt |-> NoneStr, client |-> NoneStr, result |-> NoResult]

\* CircuitBreakerError.retry_after as check() sets it: the time left when the
\* state reads OPEN, None when it reads HALF_OPEN with the quota taken.
RetryAfter ==
    IF State = OPEN /\ stats.last_failure_time # None /\ stats.last_failure_time # 0
    THEN IF config.recovery_timeout - (now - stats.last_failure_time) > 0
         THEN config.recovery_timeout - (now - stats.last_failure_time)
         ELSE 0
    ELSE None

\* Python's truth test of a string or None.
Truthy(value) == value # NoneStr /\ value # ""

\* `if cached:` in enhance().
CacheHit(value) == Truthy(value)

\* The calls that await the LLM.
AwaitingLLM == {c \in EnhCallers : ecalls[c].pc = "llm"}

\* Whether one more call may go to the LLM, so that the breaker's counters
\* stay in the model's range whatever the LLM answers.
LLMBudget ==
    stats.total_failures + stats.total_successes + Cardinality(AwaitingLLM)
        < MaxLLMCalls

\* enhance(prompt, client_name, bypass_cache) up to its first return or to
\* the await of OllamaClient.generate.
EnhanceCall(c, prompt, client_name, bypass_cache) ==
    /\ ecalls[c].pc = "idle"
    /\ bypass_cache \/ hist.gets < MaxGets
    /\ LET rule == get_rule(client_name)
           call == [pc |-> "idle", prompt |-> prompt, client |-> client_name,
                    result |-> NoResult]
           looked == IF bypass_cache
                     THEN [cache |-> cache, stats |-> cstats, hist |-> hist,
                           value |-> NoneStr]
                     ELSE get(K, make_cache_key(prompt, client_name, rule.model),
                              now)
       IN IF ~rule.enabled
          THEN /\ ecalls' = [ecalls EXCEPT ![c] =
                   [call EXCEPT !.result =
                       EnhancementResult("disabled", prompt, NoneStr, FALSE,
                                         FALSE, "disabled")]]
               /\ UNCHANGED <<cache, cstats, hist, half_open_calls, obs>>
          ELSE /\ cache' = looked.cache
               /\ cstats' = looked.stats
               /\ hist' = looked.hist
               /\ IF CacheHit(looked.value)
                  THEN /\ ecalls' = [ecalls EXCEPT ![c] =
                           [call EXCEPT !.result =
                               EnhancementResult("cache", looked.value,
                                                 rule.model, TRUE, FALSE,
                                                 NoneStr)]]
                       /\ UNCHANGED <<half_open_calls, obs>>
                  ELSE /\ CheckAdmits => LLMBudget
                       /\ half_open_calls' = ProbesChecked
                       /\ obs' = ObsChecked
                       /\ ecalls' = [ecalls EXCEPT ![c] =
                            IF CheckAdmits
                            THEN [call EXCEPT !.pc = "llm"]
                            ELSE IF RetryAfter = None
                                 THEN [call EXCEPT !.result =
                                         [NoResult EXCEPT !.kind = "raised",
                                                          !.path = "rejected",
                                                          !.error = "TypeError"]]
                                 ELSE [call EXCEPT !.result =
                                         EnhancementResult("rejected", prompt,
                                                           NoneStr, FALSE, FALSE,
                                                           "retry in")]]
    /\ UNCHANGED <<config, stats, now, max_size, default_ttl>>
    /\ UNCHANGED <<bridgeVars, supVars, extVars>>

\* The LLM answers: the answer is stripped, a success recorded, the result
\* cached and returned.
LLMReply(c, text) ==
    /\ ecalls[c].pc = "llm"
    /\ LET enhanced == strip(text)
           rule == get_rule(ecalls[c].client)
           r == set(K, make_cache_key(ecalls[c].prompt, ecalls[c].client,
                                      rule.model),
                    enhanced, None, now)
       IN /\ stats' = SuccessRecorded(stats, half_open_calls, now).stats
          /\ half_open_calls' = SuccessRecorded(stats, half_open_calls, now).calls
          /\ obs' = ObsSuccess
          /\ cache' = r.cache
          /\ cstats' = r.stats
          /\ hist' = r.hist
          /\ ecalls' = [ecalls EXCEPT ![c].pc = "idle",
                           ![c].result =
                               EnhancementResult("llm", enhanced, rule.model,
                                                 FALSE, TRUE, NoneStr)]
    /\ UNCHANGED <<config, now, max_size, default_ttl>>
    /\ UNCHANGED <<bridgeVars, supVars, extVars>>

\* OllamaClient.generate raises: whichever except clause catches err, a
\* failure is recorded and the original returned with the error's message.
LLMFail(c, err) ==
    /\ ecalls[c].pc = "llm"
    /\ stats' = FailureRecorded(stats, half_open_calls, now).stats
    /\ half_open_calls' = FailureRecorded(stats, half_open_calls, now).calls
    /\ obs' = ObsFailure
    /\ ecalls' = [ecalls EXCEPT ![c].pc = "idle",
                     ![c].result =
                         EnhancementResult("failed", ecalls[c].prompt, NoneStr,
                                           FALSE, FALSE, "llm error")]
    /\ UNCHANGED <<config, now, max_size, default_ttl, cache, cstats, hist>>
    /\ UNCHANGED <<bridgeVars, supVars, extVars>>

\* The service before its first request.
ServiceIdle == ecalls = [c \in EnhCallers |-> NoEnhance]

ServiceBreaker ==
    /\ config \in {cf \in CircuitBreakerConfig :
                      /\ cf.half_open_max_calls = ServiceHalfOpenMaxCalls
                      /\ cf.success_threshold = ServiceSuccessThreshold}
    /\ stats = CircuitBreakerStats
    /\ half_open_calls = 0
    /\ now = 1
    /\ obs = NoObs

EnhanceNext ==
    \/ \E c \in EnhCallers, prompt \in Prompts, client_name \in Clients,
          bypass_cache \in BOOLEAN :
          EnhanceCall(c, prompt, client_name, bypass_cache)
    \/ \E c \in EnhCallers, text \in LLMResponses : LLMReply(c, text)
    \/ \E c \in EnhCallers, err \in LLMErrors : LLMFail(c, err)
    \/ ServiceTick

(***************************************************************************)
(* ServerRegistry on its own: add, remove and update_process_info, the     *)
(* last called by the process manager and the supervisor with each of the  *)
(* five statuses.  _servers and _processes are functions whose domain is   *)
(* the set of registered names; save() writes _servers to the config file  *)
(* and may fail after the dictionaries have been changed.                  *)
(***************************************************************************)
NoServers == [n \in {} |-> ProcessInfo]

\* ServerRegistry after load() of an empty or missing config file.
EmptyRegistry == [servers |-> NoServers, processes |-> NoServers,
                  file |-> NoServers]

\* found is the status the call met (history).
NoRegCall == [op |-> "none", name |-> "none", res |-> "none",
              found |-> NoneStr]

\* The status of name's ProcessInfo, NoneStr when there is none.
StatusOf(r, name) ==
    IF name \in DOMAIN r.processes THEN r.processes[name].status ELSE NoneStr

\* A ProcessInfo.is_running that takes only RUNNING for running.
IsRunningOnlyWhenRunning(i) == i.status = RUNNING

\* ProcessInfo.is_running
ProcessInfoIsRunning(i) == i.status \in {RUNNING, STARTING}

\* del d[name]
DictDel(d, name) == [n \in DOMAIN d \ {name} |-> d[n]]

\* d[name] = value
DictSet(d, name, value) ==
    [n \in DOMAIN d \cup {name} |-> IF n = name THEN value ELSE d[n]]

\* What a call leaves behind when save() succeeds (ok = TRUE) or raises.
Saved(r, ok) == IF ok THEN [r EXCEPT !.file = r.servers] ELSE r

SaveResult(ok) == IF ok THEN "ok" ELSE "OSError"

\* The configurations added to the registry: they differ in
\* restart_on_failure.
RegConfigs == {cfg \in ServerConfig : cfg.max_restarts = MaxRestarts}

\* ServerRegistry.add
RegistryAdd(name, cfg, save_ok) ==
    /\ IF name \in DOMAIN registry.servers
       THEN /\ registry' = registry
            /\ reg_call' = [op |-> "add", name |-> name, res |-> "ValueError",
                            found |-> StatusOf(registry, name)]
       ELSE /\ registry' =
                  Saved([registry EXCEPT
                            !.servers = DictSet(@, name, cfg),
                            !.processes = DictSet(@, name, ProcessInfo)],
                        save_ok)
            /\ reg_call' = [op |-> "add", name |-> name,
                            res |-> SaveResult(save_ok),
                            found |-> StatusOf(registry, name)]
    /\ UNCHANGED <<breakerVars, bridgeVars, supVars, svcVars, proxyVars, llmVars>>

\* ServerRegistry.remove
RegistryRemove(name, save_ok) ==
    /\ IF \/ name \notin DOMAIN registry.servers
          \/ /\ name \in DOMAIN registry.processes
             /\ ProcessInfoIsRunning(registry.processes[name])
       THEN /\ registry' = registry
            /\ reg_call' = [op |-> "remove", name |-> name,
                            res |-> "ValueError",
                            found |-> StatusOf(registry, name)]
       ELSE /\ registry' =
                  Saved([registry EXCEPT !.servers = DictDel(@, name),
                                         !.processes = DictDel(@, name)],
                        save_ok)
            /\ reg_call' = [op |-> "remove", name |-> name,
                            res |-> SaveResult(save_ok),
                            found |-> StatusOf(registry, name)]
    /\ UNCHANGED <<breakerVars, bridgeVars, supVars, svcVars, proxyVars, llmVars>>

\* ServerRegistry.update_process_info(name, status=status), as the process
\* manager calls it when a server starts, runs, fails or stops.
RegistryUpdate(name, status) ==
    /\ IF name \notin DOMAIN registry.servers
       THEN /\ registry' = registry
            /\ reg_call' = [op |-> "update", name |-> name,
                            res |-> "ValueError",
                            found |-> StatusOf(registry, name)]
       ELSE /\ registry' =
                  [registry EXCEPT !.processes =
                      DictSet(@, name,
                              update_process_info(
                                  IF name \in DOMAIN @ THEN @[name]
                                                       ELSE ProcessInfo,
                                  None, status, None, NoneStr))]
            /\ reg_call' = [op |-> "update", name |-> name, res |-> "ok",
                            found |-> StatusOf(registry, name)]
    /\ UNCHANGED <<breakerVars, bridgeVars, supVars, svcVars, proxyVars, llmVars>>

RegistryIdle ==
    /\ registry = EmptyRegistry
    /\ reg_call = NoRegCall

RegistryNext ==
    \/ \E name \in Servers, cfg \in RegConfigs, save_ok \in BOOLEAN :
          RegistryAdd(name, cfg, save_ok)
    \/ \E name \in Servers, save_ok \in BOOLEAN : RegistryRemove(name, save_ok)
    \/ \E name \in Servers, status \in ServerStatus : RegistryUpdate(name, status)

(***************************************************************************)
(* mcp_proxy: the dispatcher's requests to one server, whose bridge is the *)
(* StdioBridge above and whose breaker is the CircuitBreaker above.  A      *)
(* management request may stop the server, or close the bridge under the   *)
(* requests; what a request finds of the server is an input.               *)
(***************************************************************************)
\* The requests the dispatcher serves.
ProxyCallers == {"c1", "c2"}

\* What the child's response carries: a result or a JSON-RPC error payload.
Payloads == {"result", "error"}

\* A request that has not been made.
NoProxyCall == [pc |-> "idle", payload |-> "none", recorded |-> "none",
                opened |-> FALSE]

\* The exceptions of bridge.send that `except Exception` catches.
CaughtBySendHandler == {"Timeout", "Closed", "SendFailed"}

\* A request whose bridge.send has ended and whose handler has not yet gone
\* on: the handler runs on without a suspension, so nothing else runs first.
Unrecorded(c) == proxy[c].pc = "admitted" /\ calls[c].pc = "done"

NoneUnrecorded == \A c \in ProxyCallers : ~Unrecorded(c)

\* Whether a record_success or record_failure at time t opens the breaker.
Opens(before, after) == after.times_opened > before.times_opened

\* What mcp_proxy finds when it looks the server up after check(): the
\* server RUNNING with its bridge registered, RUNNING with no bridge
\* registered, not RUNNING with auto_start off, not RUNNING with auto_start
\* on.
Lookups == {"bridge", "no_bridge", "not_running", "auto_start"}

\* mcp_proxy up to its first suspension: breaker.check() admits the request
\* or the handler returns the breaker's error response; an admitted request
\* for a server that is not running, or that has no bridge, ends with
\* HTTPException(503); otherwise the handler awaits the auto-start or the
\* request's body.
ProxyCheck(c, found) ==
    /\ NoneUnrecorded
    /\ proxy[c].pc = "idle"
    /\ proxy' = [proxy EXCEPT ![c].pc =
                    CASE ~CheckAdmits -> "rejected"
                      [] found = "bridge" -> "admitted"
                      [] found = "auto_start" -> "starting"
                      [] OTHER -> "raised"]
    /\ half_open_calls' = ProbesChecked
    /\ obs' = ObsChecked
    /\ UNCHANGED <<config, stats, now>>
    /\ UNCHANGED <<bridgeVars, supVars, svcVars, regVars, llmVars>>

\* mcp_proxy after the await of supervisor.start_server: a failed start is
\* followed by record_failure(e) and HTTPException(503); after a start the
\* handler looks for the bridge.
ProxyStarted(c, started, bridge) ==
    /\ NoneUnrecorded
    /\ proxy[c].pc = "starting"
    /\ IF started
       THEN /\ proxy' = [proxy EXCEPT ![c].pc = IF bridge THEN "admitted"
                                                ELSE "raised"]
            /\ UNCHANGED <<stats, half_open_calls, obs>>
       ELSE LET after == FailureRecorded(stats, half_open_calls, now) IN
            /\ proxy' = [proxy EXCEPT ![c] =
                           [pc |-> "raised", payload |-> "none",
                            recorded |-> "failure",
                            opened |-> Opens(stats, after.stats)]]
            /\ stats' = after.stats
            /\ half_open_calls' = after.calls
            /\ obs' = ObsFailure
    /\ UNCHANGED <<config, now>>
    /\ UNCHANGED <<bridgeVars, supVars, svcVars, regVars, llmVars>>

\* mcp_proxy: the body parsed, bridge.send(method, params) is called.
ProxySend(c) ==
    /\ NoneUnrecorded
    /\ proxy[c].pc = "admitted"
    /\ SendCall(c)

\* mcp_proxy after bridge.send: a response, whatever it carries, is followed
\* by record_success(); an Exception by record_failure(e); a CancelledError
\* is no Exception and leaves the handler with nothing recorded.
ProxyRecord(c) ==
    /\ Unrecorded(c)
    /\ CASE calls[c].outcome = "response" ->
              LET after == SuccessRecorded(stats, half_open_calls, now) IN
              /\ \E payload \in Payloads :
                    proxy' = [proxy EXCEPT ![c] =
                                [pc |-> "returned", payload |-> payload,
                                 recorded |-> "success",
                                 opened |-> Opens(stats, after.stats)]]
              /\ stats' = after.stats
              /\ half_open_calls' = after.calls
              /\ obs' = ObsSuccess
         [] calls[c].outcome \in CaughtBySendHandler ->
              LET after == FailureRecorded(stats, half_open_calls, now) IN
              /\ proxy' = [proxy EXCEPT ![c] =
                             [pc |-> "returned", payload |-> "none",
                              recorded |-> "failure",
                              opened |-> Opens(stats, after.stats)]]
              /\ stats' = after.stats
              /\ half_open_calls' = after.calls
              /\ obs' = ObsFailure
         [] OTHER ->
              /\ proxy' = [proxy EXCEPT ![c].pc = "raised"]
              /\ UNCHANGED <<stats, half_open_calls, obs>>
    /\ UNCHANGED <<config, now>>
    /\ UNCHANGED <<bridgeVars, supVars, svcVars, regVars, llmVars>>

ProxyIdle == proxy = [c \in Callers |-> NoProxyCall]

ProxyNext ==
    \/ \E c \in ProxyCallers : ProxyRecord(c)
    \/ /\ NoneUnrecorded
       /\ \/ \E c \in ProxyCallers, found \in Lookups : ProxyCheck(c, found)
          \/ \E c \in ProxyCallers, started, bridge \in BOOLEAN :
                ProxyStarted(c, started, bridge)
          \/ \E c \in ProxyCallers : ProxySend(c)
          \/ \E c \in ProxyCallers : DrainDone(c)
          \/ \E c \in ProxyCallers : SendReturn(c)
          \/ \E c \in ProxyCallers : SendTimeout(c)
          \/ ReaderRead
          \/ ReaderEOF
          \/ CloseCall
          \/ CloseFinish
          \/ \E i \in 1..Cardinality(Callers) : ChildReply(i)
          \/ ChildExit
          \/ Tick

(***************************************************************************)
(* OllamaClient.generate: one call, its attempts and the sleeps between    *)
(* them.  Each attempt ends: the HTTP client's timeout bounds the post.    *)
(***************************************************************************)
\* How an attempt's post can end: a response that is read, a 404, another
\* error status (raise_for_status), and the three httpx errors the loop
\* catches.
AttemptOutcomes ==
    {"ok", "not_found", "HTTPStatusError", "ConnectError", "TimeoutException",
     "RequestError"}

\* last_error as the except clauses set it.
LastError(outcome) ==
    CASE outcome = "ConnectError" -> "OllamaConnectionError"
      [] outcome = "TimeoutException" -> "OllamaError: timed out"
      [] OTHER -> "OllamaError: request failed"

\* A loop that makes one attempt more.
AttemptsOneMore(max_retries) == max_retries + 2

\* The attempts of range(self.config.max_retries + 1).
Attempts(max_retries) == max_retries + 1

\* A generate() that has not been called; OllamaConfig.max_retries is kept
\* with it.
NoGenerate(max_retries) ==
    [pc |-> "idle", max_retries |-> max_retries, tried |-> <<>>,
     slept |-> 0, result |-> "none"]

\* generate() up to its first suspension: the payload is built and the first
\* attempt, if the loop has one, posts it.
GenerateCall ==
    /\ gen.pc = "idle"
    /\ gen' = IF Attempts(gen.max_retries) > 0
              THEN [gen EXCEPT !.pc = "post"]
              ELSE [gen EXCEPT !.pc = "done",
                               !.result = "OllamaError: unknown"]
    /\ UNCHANGED <<breakerVars, bridgeVars, supVars, svcVars, regVars,
                   proxyVars>>

\* An attempt's post ends: the response is returned, OllamaModelError or the
\* status error leaves generate(), or last_error is set and the loop sleeps
\* before the next attempt, or, after the last attempt, raises last_error.
PostEnds(outcome) ==
    /\ gen.pc = "post"
    /\ LET attempt == Len(gen.tried)
           tried == Append(gen.tried, outcome)
       IN
       gen' = CASE outcome = "ok" ->
                     [gen EXCEPT !.pc = "done", !.tried = tried,
                                 !.result = "OllamaResponse"]
                [] outcome = "not_found" ->
                     [gen EXCEPT !.pc = "done", !.tried = tried,
                                 !.result = "OllamaModelError"]
                [] outcome = "HTTPStatusError" ->
                     [gen EXCEPT !.pc = "done", !.tried = tried,
                                 !.result = "HTTPStatusError"]
                [] OTHER ->
                     IF attempt < gen.max_retries
                     THEN [gen EXCEPT !.pc = "sleep", !.tried = tried]
                     ELSE IF attempt + 1 < Attempts(gen.max_retries)
                     THEN [gen EXCEPT !.pc = "post", !.tried = tried]
                     ELSE [gen EXCEPT !.pc = "done", !.tried = tried,
                                      !.result = LastError(outcome)]
    /\ UNCHANGED <<breakerVars, bridgeVars, supVars, svcVars, regVars,
                   proxyVars>>

\* asyncio.sleep(retry_delay) ends and the next attempt posts.
SleepEnds ==
    /\ gen.pc = "sleep"
    /\ gen' = IF Len(gen.tried) < Attempts(gen.max_retries)
              THEN [gen EXCEPT !.pc = "post", !.slept = gen.slept + 1]
              ELSE [gen EXCEPT !.pc = "done", !.slept = gen.slept + 1,
                               !.result =
                                   LastError(gen.tried[Len(gen.tried)])]
    /\ UNCHANGED <<breakerVars, bridgeVars, supVars, svcVars, regVars,
                   proxyVars>>

LLMIdle == gen = NoGenerate(MaxRetries)

LLMInit == \E max_retries \in 0..MaxRetries : gen = NoGenerate(max_retries)

LLMNext ==
    \/ GenerateCall
    \/ \E outcome \in AttemptOutcomes : PostEnds(outcome)
    \/ SleepEnds

(***************************************************************************)
(* The specifications.                                                     *)
(***************************************************************************)
\* A cache nothing uses.
CacheIdle == CacheWith({1}, {1})

\* The components modelled on their own, unused.
ExtIdle == RegistryIdle /\ ProxyIdle /\ LLMIdle

InitBreaker ==
    BreakerInit /\ BridgeInit /\ SupervisorInit /\ CacheIdle /\ ServiceIdle
        /\ ExtIdle

SpecBreaker == InitBreaker /\ [][BreakerNext]_vars

InitBridge ==
    BreakerIdle /\ BridgeInit /\ SupervisorInit /\ CacheIdle /\ ServiceIdle
        /\ ExtIdle

SpecBridge == InitBridge /\ [][BridgeNext]_vars

InitSupervisor ==
    BreakerIdle /\ BridgeInit /\ SupervisorInit /\ CacheIdle /\ ServiceIdle
        /\ ExtIdle

SpecSupervisor == InitSupervisor /\ [][SupervisorNext]_vars

InitCrashLoop ==
    BreakerIdle /\ BridgeInit /\ CrashLoopInit /\ CacheIdle /\ ServiceIdle
        /\ ExtIdle

SpecCrashLoop == InitCrashLoop /\ [][CrashLoopNext]_vars

InitCache ==
    BreakerIdle /\ BridgeInit /\ SupervisorInit /\ CacheInit /\ ServiceIdle
        /\ ExtIdle

SpecCache == InitCache /\ [][CacheNext]_vars

InitEnhance ==
    ServiceBreaker /\ BridgeInit /\ SupervisorInit /\ CacheInit /\ ServiceIdle
        /\ ExtIdle

SpecEnhance == InitEnhance /\ [][EnhanceNext]_vars

InitRegistry ==
    BreakerIdle /\ BridgeInit /\ SupervisorInit /\ CacheIdle /\ ServiceIdle
        /\ ExtIdle

SpecRegistry == InitRegistry /\ [][RegistryNext]_vars

\* Time passes, callers keep calling check() and every admitted probe
\* reports its outcome.
SpecRecovery ==
    /\ InitBreaker
    /\ [][RecoveryNext]_vars
    /\ WF_vars(Tick) /\ WF_vars(Check) /\ WF_vars(ProbeSucceeds)

InitProxy ==
    BreakerInit /\ BridgeInit /\ SupervisorInit /\ CacheIdle /\ ServiceIdle
        /\ ExtIdle

SpecProxy == InitProxy /\ [][ProxyNext]_vars

InitLLM ==
    BreakerIdle /\ BridgeInit /\ SupervisorInit /\ CacheIdle /\ ServiceIdle
        /\ RegistryIdle /\ ProxyIdle /\ LLMInit

\* Every post ends, by the HTTP client's timeout at the latest, and every
\* sleep ends.
SpecLLM == InitLLM /\ [][LLMNext]_vars /\ WF_vars(LLMNext)

(***************************************************************************)
(* Claims about the supervisor.                                            *)
(***************************************************************************)

\* C1: in every reachable state, also while start_server is initializing
\* the bridge, after the child has exited and during a stop, a server whose
\* status is RUNNING has a pid and an open bridge registered in the
\* supervisor's bridges map.
C1_RunningHasOpenBridge ==
    \A s \in Servers :
        info[s].status = RUNNING =>
            /\ info[s].pid # None
            /\ bridges[s] # None
            /\ ~bobj[bridges[s]].closed

\* C2: once the liveness loop has made a pass while the child of a RUNNING
\* server was dead, the death has been detected: check_process was reached
\* for the server, its status has left RUNNING, its process handle is
\* dropped and its bridge is removed from the map.
C2_PassDetectsDeath ==
    \A s \in Servers :
        dead_passes[s] >= 1 =>
            /\ info[s].status # RUNNING
            /\ processes[s] = None
            /\ bridges[s] = None

\* C3: for a server with restart_on_failure that was started once by hand,
\* once the liveness loop has made a pass over its dead child the server
\* has either been restarted automatically (restart_count counts it) or,
\* the cap being reached, is FAILED with restart_count = max_restarts and
\* last_error recording the exit; restart_count never exceeds max_restarts.
C3_RestartsUpToCap ==
    \A s \in Servers :
        /\ info[s].restart_count <= servers[s].max_restarts
        /\ dead_passes[s] >= 1 =>
              \/ info[s].restart_count >= 1
              \/ /\ info[s].status = FAILED
                 /\ info[s].restart_count = servers[s].max_restarts
                 /\ info[s].last_error = "exit_code"

(***************************************************************************)
(* Claims about the stdio bridge.                                          *)
(***************************************************************************)

\* The ids of the send() calls that ended with Timeout.
TimedOutIds == {calls[c].id : c \in {d \in Callers : calls[d].outcome = "Timeout"}}

\* C4: after close() has returned pending is empty, and every send() whose
\* future was still pending when close() cancelled it has ended with the
\* Closed bridge error and with no other outcome.
C4_PendingSendsSeeClosed ==
    /\ closed /\ close_pc = "idle" => pending = {}
    /\ \A c \in Callers :
         calls[c].future = "closed_cancel" /\ calls[c].pc = "done"
            => calls[c].outcome = "Closed"

\* C5: every send() that returns a response returns the one that carries the
\* id issued to that call, the ids issued to different calls differ, and
\* once no call is in flight pending is empty.
C5_ResponsesMatchIds ==
    /\ \A c \in Callers :
         calls[c].outcome = "response" => calls[c].got = calls[c].id
    /\ \A c, d \in Callers :
         c # d /\ calls[c].id # NoId /\ calls[d].id # NoId
            => calls[c].id # calls[d].id
    /\ (\A c \in Callers : calls[c].pc \in {"idle", "done"}) => pending = {}

\* Three concurrent calls, answered out of order: the last one issued has
\* its response while the first one issued still waits, and the second has
\* returned.
C5_Witness ==
    \E c, d, e \in Callers :
        /\ calls[c].id = 1 /\ calls[d].id = 2 /\ calls[e].id = 3
        /\ calls[c].pc = "wait" /\ calls[c].future = "pending"
        /\ calls[d].outcome = "response"
        /\ calls[e].outcome = "response" /\ calls[e].got = 3
        /\ pending = {1}

\* C6: a send() that timed out has its id removed from pending; the reader
\* drops a response that arrives later with that id, resolving no future,
\* leaving pending as it is and staying alive; and a send() issued after the
\* one that timed out still returns the response with its own id.
C6_TimeoutThenLateReply ==
    /\ [](\A c \in Callers :
            calls[c].outcome = "Timeout" => calls[c].id \notin pending)
    /\ [][(/\ wire # <<>>
           /\ wire' = Tail(wire)
           /\ Head(wire).kind = "response"
           /\ Head(wire).id \in TimedOutIds)
          => (/\ pending' = pending
              /\ calls' = calls
              /\ reader_task' = reader_task
              /\ Head(wire).id \in dropped')]_vars
    /\ [](\A c, d \in Callers :
            (/\ calls[d].outcome = "Timeout"
             /\ calls[d].id < calls[c].id
             /\ calls[c].outcome = "response")
              => calls[c].got = calls[c].id)

\* A call timed out, its late response was read and dropped, the reader is
\* still running, and a call with a later id has returned its response.
C6_Witness ==
    \E c, d \in Callers :
        /\ calls[c].outcome = "Timeout"
        /\ calls[c].id \in dropped
        /\ calls[d].id > calls[c].id
        /\ calls[d].outcome = "response"
        /\ pending = {}
        /\ reader_task = "running"

(***************************************************************************)
(* Claims about the circuit breaker.                                       *)
(***************************************************************************)

\* C7: from a fresh CLOSED breaker, while fewer than failure_threshold
\* failures have been recorded the state reads CLOSED and check() admits;
\* the failure_threshold-th record_failure makes the state OPEN and check()
\* raises.
C7_ThresholdOpens ==
    /\ [](stats.times_opened = 0
          /\ stats.total_failures < config.failure_threshold
            => State = CLOSED /\ CheckAdmits)
    /\ [][(/\ stats.times_opened = 0
           /\ stats.total_failures = config.failure_threshold - 1
           /\ stats'.total_failures = config.failure_threshold)
          => (stats'.state = OPEN /\ State' = OPEN /\ ~CheckAdmits')]_vars

\* The failure_threshold-th failure of a breaker with a threshold above one
\* has just opened it.
C7_Witness ==
    /\ config.failure_threshold >= 2
    /\ stats.total_failures = config.failure_threshold
    /\ stats.failure_count = config.failure_threshold
    /\ stats.times_opened = 1
    /\ State = OPEN
    /\ ~CheckAdmits

\* C8: the state accessor reads HALF_OPEN only when the stored state is OPEN
\* and at least recovery_timeout has elapsed since last_failure_time; until
\* then it reads OPEN and check() rejects; only the passage of time moves
\* the reading from OPEN to HALF_OPEN.
C8_HalfOpenOnlyAfterTimeout ==
    /\ [](State = HALF_OPEN
            => /\ stats.state = OPEN
               /\ stats.last_failure_time # None
               /\ now - stats.last_failure_time >= config.recovery_timeout)
    /\ [](stats.state = OPEN
          /\ now - stats.last_failure_time < config.recovery_timeout
            => State = OPEN /\ ~CheckAdmits)
    /\ [][State = OPEN /\ State' = HALF_OPEN => now' > now]_vars

\* An opened breaker reads HALF_OPEN exactly recovery_timeout after its last
\* failure.
C8_Witness ==
    /\ State = HALF_OPEN
    /\ stats.times_opened >= 1
    /\ now - stats.last_failure_time = config.recovery_timeout

\* C9: while the breaker reads HALF_OPEN and no outcome has been recorded
\* since it began to, the check() calls admitted never exceed
\* half_open_max_calls, and check() admits exactly while fewer than
\* half_open_max_calls have been admitted.
C9_ProbeQuota ==
    (State = HALF_OPEN /\ ~obs.outcome)
        => /\ obs.admitted <= config.half_open_max_calls
           /\ CheckAdmits <=> obs.admitted < config.half_open_max_calls

\* A half-open breaker has admitted its whole quota of two probes and
\* rejects the next check().
C9_Witness ==
    /\ State = HALF_OPEN
    /\ ~obs.outcome
    /\ config.half_open_max_calls = 2
    /\ obs.admitted = 2
    /\ ~CheckAdmits

\* C10: a record_success while the breaker reads HALF_OPEN closes it exactly
\* when success_threshold successes have been recorded since it became
\* half-open.
C10_ClosesAtSuccessThreshold ==
    [][(State = HALF_OPEN /\ stats'.total_successes = stats.total_successes + 1)
        => (stats'.state = CLOSED
              <=> obs'.successes >= config.success_threshold)]_vars

\* C11: a record_failure while the breaker reads HALF_OPEN returns it to
\* OPEN with last_failure_time at that failure; a reopened breaker rejects
\* check() until recovery_timeout has elapsed since its last failure, and
\* the half-open period that follows starts with no probe slot taken and
\* admits exactly half_open_max_calls probes.
C11_HalfOpenFailureReopens ==
    /\ [][(State = HALF_OPEN /\ stats'.total_failures = stats.total_failures + 1)
          => /\ stats'.state = OPEN
             /\ stats'.times_opened = stats.times_opened + 1
             /\ stats'.last_failure_time = now
             /\ State' = OPEN
             /\ ~CheckAdmits'
             /\ half_open_calls' = 0]_vars
    /\ [](stats.times_opened >= 2 /\ stats.state = OPEN
            => /\ (State = OPEN
                     <=> now - stats.last_failure_time < config.recovery_timeout)
               /\ (State = OPEN => ~CheckAdmits /\ half_open_calls = 0))
    /\ [][(stats.times_opened >= 2 /\ State = OPEN /\ State' = HALF_OPEN)
          => /\ now' - stats.last_failure_time = config.recovery_timeout
             /\ half_open_calls' = 0
             /\ CheckAdmits']_vars
    /\ [](stats.times_opened >= 2 /\ State = HALF_OPEN /\ ~obs.outcome
            => /\ half_open_calls = obs.admitted
               /\ CheckAdmits <=> obs.admitted < config.half_open_max_calls)

\* A breaker that a half-open failure reopened reads HALF_OPEN again and has
\* admitted its whole quota of two probes.
C11_Witness ==
    /\ stats.times_opened = 2
    /\ stats.total_failures = 2
    /\ stats.total_successes = 0
    /\ State = HALF_OPEN
    /\ config.half_open_max_calls = 2
    /\ obs.admitted = 2
    /\ ~obs.outcome
    /\ ~CheckAdmits

(***************************************************************************)
(* Claims about the enhancement service.                                   *)
(***************************************************************************)

\* C12: on any failure enhance() returns, and never raises, a result with
\* enhanced = original and error set, in every state of the cache, the LLM
\* and the breaker, also when check() rejects the call while the breaker
\* reads HALF_OPEN with its probe quota taken by a concurrent call.
C12_FailureReturnsOriginal ==
    \A c \in EnhCallers :
        /\ ecalls[c].result.kind # "raised"
        /\ ecalls[c].result.path \in {"failed", "rejected"}
              => /\ ecalls[c].result.kind = "returned"
                 /\ ecalls[c].result.enhanced = ecalls[c].prompt
                 /\ ecalls[c].result.error # NoneStr

\* C13: once failure_threshold enhance() calls have failed and none has
\* succeeded, every enhance() call that is neither disabled nor served from
\* the cache, made before recovery_timeout has elapsed since the last
\* failure, returns the original prompt with an error containing "retry
\* in", makes no LLM request and leaves the breaker as it was.
C13_OpenBreakerRejects ==
    [][\A c \in EnhCallers :
          (/\ stats.total_successes = 0
           /\ stats.total_failures >= config.failure_threshold
           /\ now - stats.last_failure_time < config.recovery_timeout
           /\ ecalls[c].pc = "idle"
           /\ ecalls'[c] # ecalls[c]
           /\ ecalls'[c].result.path \notin {"disabled", "cache"})
          => /\ ecalls'[c].pc = "idle"
             /\ ecalls'[c].result.kind = "returned"
             /\ ecalls'[c].result.path = "rejected"
             /\ ecalls'[c].result.enhanced = ecalls'[c].prompt
             /\ ecalls'[c].result.error = "retry in"
             /\ ~ecalls'[c].result.enhanced_by_llm
             /\ AwaitingLLM' = AwaitingLLM
             /\ stats' = stats
             /\ half_open_calls' = half_open_calls]_vars

\* After two failed calls have opened a breaker with a threshold of two, a
\* call has been turned away with "retry in".
C13_Witness ==
    /\ config.failure_threshold = 2
    /\ stats.total_failures = 2
    /\ stats.total_successes = 0
    /\ State = OPEN
    /\ \E c \in EnhCallers :
          /\ ecalls[c].result.path = "rejected"
          /\ ecalls[c].result.error = "retry in"
          /\ ecalls[c].result.enhanced = ecalls[c].prompt

\* C14: an enhance() call that looks its prompt up in the cache (bypass_cache
\* false, rule enabled) while the cache holds an unexpired entry for that
\* prompt, client and model -- stored by an earlier call that succeeded
\* through the LLM -- returns the stored string with cached = true and
\* enhanced_by_llm = false, without consulting the breaker or calling the
\* LLM, whatever string the LLM had returned.
C14_WarmCacheServes ==
    [][\A c \in EnhCallers :
          LET key == make_cache_key(ecalls'[c].prompt, ecalls'[c].client,
                                    get_rule(ecalls'[c].client).model)
              i == IndexOf(cache, key)
          IN (/\ hist'.gets = hist.gets + 1
              /\ ecalls[c].pc = "idle"
              /\ ecalls'[c] # ecalls[c]
              /\ i # 0
              /\ ~Expired(cache[i], now))
             => /\ ecalls'[c].pc = "idle"
                /\ ecalls'[c].result.kind = "returned"
                /\ ecalls'[c].result.enhanced = cache[i].value
                /\ ecalls'[c].result.cached
                /\ ~ecalls'[c].result.enhanced_by_llm
                /\ half_open_calls' = half_open_calls
                /\ obs' = obs]_vars

\* The returns of enhance() that skip the enhancement or report its failure.
SkippedOrFailed == {"disabled", "rejected", "failed"}

\* C15 as stated: for every result of enhance(), enhanced equals original if
\* and only if enhancement was skipped (rule disabled, breaker rejected) or
\* failed; a result produced by the LLM or served from the cache has error
\* unset.
C15_OriginalIffSkippedOrFailed ==
    \A c \in EnhCallers :
        ecalls[c].result.kind = "returned"
            => /\ (ecalls[c].result.enhanced = ecalls[c].prompt)
                      <=> (ecalls[c].result.path \in SkippedOrFailed)
               /\ ecalls[c].result.path \in {"llm", "cache"}
                      => ecalls[c].result.error = NoneStr

\* C15, amended: for every result of enhance(), a skipped or failed
\* enhancement returns enhanced equal to original with error set and neither
\* cached nor enhanced_by_llm; a result produced by the LLM or served from
\* the cache has error unset and exactly one of the two flags; so enhanced
\* differs from original only in a result of the LLM or of the cache.
C15_SkippedOrFailedKeepsOriginal ==
    \A c \in EnhCallers :
        ecalls[c].result.kind = "returned"
            => /\ ecalls[c].result.path \in SkippedOrFailed
                      => /\ ecalls[c].result.enhanced = ecalls[c].prompt
                         /\ ecalls[c].result.error # NoneStr
                         /\ ~ecalls[c].result.cached
                         /\ ~ecalls[c].result.enhanced_by_llm
               /\ ecalls[c].result.path \in {"llm", "cache"}
                      => /\ ecalls[c].result.error = NoneStr
                         /\ ecalls[c].result.cached
                                # ecalls[c].result.enhanced_by_llm
               /\ ecalls[c].result.enhanced # ecalls[c].prompt
                      => \/ ecalls[c].result.enhanced_by_llm
                         \/ ecalls[c].result.cached

\* One call has failed and returned its prompt with the error, and another
\* has been answered by an LLM that echoed the prompt.
C15_Witness ==
    \E c, d \in EnhCallers :
        /\ ecalls[c].result.kind = "returned"
        /\ ecalls[c].result.path = "failed"
        /\ ecalls[c].result.enhanced = ecalls[c].prompt
        /\ ecalls[d].result.kind = "returned"
        /\ ecalls[d].result.enhanced_by_llm
        /\ ecalls[d].result.enhanced = ecalls[d].prompt
        /\ ecalls[d].result.error = NoneStr

(***************************************************************************)
(* Claims about the cache.                                                 *)
(***************************************************************************)
\* C16: after any sequence of set, get, delete, clear and cleanup_expired
\* on a cache with max_size >= 1, the number of stored entries never
\* exceeds max_size (and the keys stored are distinct).
C16_SizeWithinMax ==
    /\ max_size >= 1
    /\ Len(cache) <= max_size
    /\ Cardinality(KeysOf(cache)) = Len(cache)

\* A cache of the largest capacity is full after a set that had to evict
\* an entry.
C16_Witness ==
    /\ max_size = MaxCacheSize
    /\ Len(cache) = max_size
    /\ cstats.evictions >= 1

\* C17: when a new key is set into a full cache, exactly one entry is
\* evicted and it is the least recently used one, where the insertion, a
\* get() hit and a set() update of an existing key each count as a use
\* (hist.recent lists the stored keys from the least to the most recently
\* used); a set into a cache that is not full evicts nothing; the evictions
\* counter is the number of insertions that found the cache full, so that
\* with nothing removed otherwise max_size + k insertions make it k.
C17_EvictsLeastRecentlyUsed ==
    /\ [](cstats.evictions = hist.inserted - hist.removed - Len(cache))
    /\ []((hist.removed = 0 /\ hist.inserted >= max_size)
             => cstats.evictions = hist.inserted - max_size)
    /\ [][/\ ((hist'.inserted = hist.inserted + 1 /\ Len(cache) = max_size)
                 => (/\ cstats'.evictions = cstats.evictions + 1
                     /\ Head(hist.recent) \in KeysOf(cache)
                     /\ Head(hist.recent) \notin KeysOf(cache')
                     /\ KeysOf(cache') =
                           (KeysOf(cache) \ {Head(hist.recent)})
                               \cup {cache'[Len(cache')].key}))
           /\ ((hist'.inserted = hist.inserted + 1 /\ Len(cache) < max_size)
                 => (/\ cstats'.evictions = cstats.evictions
                     /\ KeysOf(cache) \subseteq KeysOf(cache')))
           /\ ((hist'.inserted = hist.inserted)
                 => (cstats'.evictions = cstats.evictions))]_vars

\* A cache of the largest capacity has taken one insertion more than it
\* holds, every get so far was a hit, and one entry has been evicted; the
\* entry that survived the eviction is the one for prompt "p".
C17_Witness ==
    /\ max_size = MaxCacheSize
    /\ hist.removed = 0
    /\ hist.inserted = max_size + 1
    /\ cstats.evictions = 1
    /\ cstats.hits >= 1
    /\ Len(cache) = max_size
    /\ \E i \in 1..Len(cache) : cache[i].key = make_cache_key("p", NoneStr, RuleModel)
    /\ cache[Len(cache)].key # make_cache_key("p", NoneStr, RuleModel)
    /\ hist.gets = cstats.hits

\* C18: hits + misses equals the number of get() calls made so far, those
\* made through exists() and get_enhanced() included; a get that finds an
\* expired entry deletes it and counts one miss, a get that returns a value
\* counts one hit; set, delete, clear and cleanup_expired change neither
\* hits nor misses.
C18_HitsPlusMissesCountGets ==
    /\ [](cstats.hits + cstats.misses = hist.gets)
    /\ [][/\ ((hist'.gets = hist.gets)
                 => (/\ cstats'.hits = cstats.hits
                     /\ cstats'.misses = cstats.misses))
           /\ ((hist'.gets = hist.gets + 1 /\ Len(cache') < Len(cache))
                 => (/\ cstats'.misses = cstats.misses + 1
                     /\ cstats'.hits = cstats.hits))
           /\ ((hist'.gets = hist.gets + 1 /\ cstats'.hits # cstats.hits)
                 => (/\ cstats'.hits = cstats.hits + 1
                     /\ cstats'.misses = cstats.misses
                     /\ KeysOf(cache') = KeysOf(cache)))]_vars

\* Two gets have been made, one a hit and one a miss, the entry has left
\* the cache again, and nothing was evicted.
C18_Witness ==
    /\ hist.gets = 2
    /\ cstats.hits = 1
    /\ cstats.misses = 1
    /\ hist.inserted = 1
    /\ hist.removed = 1
    /\ cstats.evictions = 0
    /\ cache = <<>>
    /\ now = MaxServiceTime

(***************************************************************************)
(* Claims about the registry and the process manager.                      *)
(***************************************************************************)
\* C21: in every reachable state, a ProcessInfo whose pid is non-null
\* belongs to a server for which ProcessManager tracks a child with that
\* pid (a child whose exit the manager has not yet seen counts as tracked);
\* in particular the pid is null once ProcessManager.stop has completed or
\* check_process has detected the exit, which both untrack the child.
C21_PidRefersToTrackedChild ==
    \A s \in Servers :
        info[s].pid # None => processes[s] = info[s].pid

\* C22: after every successful ProcessManager.start(name) -- the step in
\* which the new child's handle is tracked -- also one that follows a crash
\* or a failed spawn, the server's ProcessInfo has the new child's pid,
\* status RUNNING and last_error cleared (started_at, which the same call
\* sets, is not part of the model's ProcessInfo).
C22_StartFillsProcessInfo ==
    [][\A s \in Servers :
          (processes'[s] # processes[s] /\ processes'[s] # None)
             => (/\ info'[s].pid = processes'[s]
                 /\ info'[s].status = RUNNING
                 /\ info'[s].last_error = NoneStr)]_vars

\* C23: ProcessManager.start(name), reached through start_server(name)
\* while a live child for name is tracked, fails with the "already running"
\* error (ValueError, the Conflict of the error taxonomy) and leaves the
\* tracked child, the ProcessInfo (pid and status included) and the bridges
\* unchanged.
C23_StartWhileRunningConflicts ==
    [][\A t \in Tasks, s \in Servers :
          (CallStartServer(t, s) /\ is_running(W, s))
             => (/\ task'[t].pc = "idle"
                 /\ task'[t].result = "ValueError"
                 /\ processes' = processes
                 /\ info' = info
                 /\ children' = children
                 /\ bridges' = bridges
                 /\ bobj' = bobj)]_vars

\* One task alone has started s1, whose only child is alive and tracked,
\* and its last call has ended with ValueError: the call was a second
\* start_server("s1"), since nothing was stopped and s2 was never touched.
C23_Witness ==
    \E t \in Tasks :
        /\ task[t].pc = "idle"
        /\ task[t].result = "ValueError"
        /\ \A u \in Tasks \ {t} : task[u] = IdleTask
        /\ next_pid = 2
        /\ processes["s1"] = 1
        /\ children[1] = "alive"
        /\ info["s1"].pid = 1
        /\ info["s1"].status = RUNNING
        /\ info["s2"] = ProcessInfo
        /\ processes["s2"] = None

\* C24 as stated: registry.remove(name) succeeds only when the server's
\* ProcessInfo.status is STOPPED; in every other status it fails and leaves
\* configs and processes unchanged.
C24_RemoveOnlyWhenStopped ==
    [][\A name \in Servers :
          (/\ name \in DOMAIN registry.servers
           /\ registry.processes[name].status # STOPPED)
             => (/\ name \in DOMAIN registry'.servers
                 /\ reg_call'.op = "remove" /\ reg_call'.name = name
                       => (/\ reg_call'.res = "ValueError"
                           /\ registry' = registry))]_vars

\* C24, amended: registry.remove(name) fails with ValueError, leaving
\* configs, processes and the config file unchanged, exactly when the name
\* is not registered or the server's status is RUNNING or STARTING; in the
\* statuses STOPPED, STOPPING and FAILED it deletes the server's config and
\* ProcessInfo, leaves the other servers as they were and saves the configs
\* (when the save fails the call raises after the deletion).
C24_RemoveUnlessRunning ==
    [][\A name \in Servers, save_ok \in BOOLEAN :
          RegistryRemove(name, save_ok)
             => IF \/ name \notin DOMAIN registry.servers
                   \/ registry.processes[name].status \in {RUNNING, STARTING}
                THEN /\ reg_call'.res = "ValueError"
                     /\ registry' = registry
                ELSE /\ registry.processes[name].status
                            \in {STOPPED, STOPPING, FAILED}
                     /\ reg_call'.res = SaveResult(save_ok)
                     /\ DOMAIN registry'.servers = DOMAIN registry.servers \ {name}
                     /\ DOMAIN registry'.processes = DOMAIN registry.servers \ {name}
                     /\ \A n \in DOMAIN registry'.servers :
                           /\ registry'.servers[n] = registry.servers[n]
                           /\ registry'.processes[n] = registry.processes[n]
                     /\ save_ok => registry'.file = registry'.servers]_vars

\* A server has been removed while its status was FAILED, and another one
\* is registered with status STARTING.
C24_Witness ==
    /\ reg_call = [op |-> "remove", name |-> "s1", res |-> "ok",
                   found |-> FAILED]
    /\ DOMAIN registry.servers = {"s2"}
    /\ registry.processes["s2"].status = STARTING
    /\ registry.file = registry.servers

(***************************************************************************)
(* Further claims about the bridge.                                        *)
(***************************************************************************)
\* C25: once close() has been called, every send() and every
\* send_notification() made on the bridge fails with the "Bridge is closed"
\* error, without writing to the child's stdin, issuing an id or adding an
\* entry to pending.
C25_ClosedBridgeRefuses ==
    [][\A c \in Callers :
          (closed /\ calls[c].pc = "idle" /\ calls'[c] # calls[c])
             => (/\ calls'[c].pc \in {"done", "notified"}
                 /\ calls'[c].outcome = "Closed"
                 /\ calls'[c].id = NoId
                 /\ request_id' = request_id
                 /\ pending' = pending
                 /\ child' = child
                 /\ reader_task' = reader_task)]_vars

\* After a request was answered and the bridge closed, a send() and a
\* send_notification() have both been refused.
C25_Witness ==
    /\ closed
    /\ request_id = 1
    /\ pending = {}
    /\ \E c, d, e \in Callers :
          /\ calls[c].outcome = "response"
          /\ calls[d].pc = "done" /\ calls[d].outcome = "Closed"
          /\ calls[d].id = NoId
          /\ calls[e].pc = "notified" /\ calls[e].outcome = "Closed"

(***************************************************************************)
(* Further claims about the circuit breaker.                               *)
(***************************************************************************)
\* C26: from any breaker state (CLOSED, OPEN, or HALF_OPEN with the probe
\* quota exhausted) reset() yields CLOSED with every counter zero
\* (failure_count, success_count, the totals, times_opened and the half-open
\* probe count), and from then on check() admits every call for as long as
\* no failure has been recorded.
C26_ResetClosesAndZeroes ==
    /\ [][(stats # CircuitBreakerStats /\ stats'.total_failures = 0
               /\ stats'.total_successes = 0)
             => (/\ stats' = CircuitBreakerStats
                 /\ half_open_calls' = 0
                 /\ State' = CLOSED
                 /\ CheckAdmits')]_vars
    /\ [](obs.was_reset /\ stats.total_failures = 0
             => /\ State = CLOSED
                /\ CheckAdmits
                /\ stats.failure_count = 0
                /\ stats.times_opened = 0
                /\ half_open_calls = 0)

\* A breaker has been reset after calls were recorded: at the latest time of
\* the model it is CLOSED, its failure counters are zero and calls have gone
\* through since.
C26_Witness ==
    /\ obs.was_reset
    /\ now = MaxTime
    /\ stats.state = CLOSED
    /\ stats.total_failures = 0
    /\ stats.total_successes >= 1
    /\ half_open_calls = 0
    /\ CheckAdmits

\* C27: after any sequence of check, record_success, record_failure and
\* reset calls, total_failures >= failure_count and total_successes >=
\* success_count.
C27_TotalsBoundCounts ==
    /\ stats.total_failures >= stats.failure_count
    /\ stats.total_successes >= stats.success_count

\* A breaker was reset, has since closed again from half-open, which zeroed
\* its counts, and has recorded a failure after that: the totals are ahead
\* of the counts.
C27_Witness ==
    /\ obs.was_reset
    /\ stats.state = CLOSED
    /\ stats.times_opened = 1
    /\ stats.failure_count = 1
    /\ stats.total_failures > stats.failure_count
    /\ stats.total_successes > stats.success_count

\* C28: every CircuitBreakerError check() raises, with the breaker OPEN or
\* HALF_OPEN with its probe quota taken, carries a numeric retry_after >= 0.
C28_RejectionCarriesRetryAfter ==
    ~CheckAdmits => (RetryAfter # None /\ RetryAfter >= 0)

\* C29: in the dispatcher, a request whose bridge.send returns a response
\* carrying a JSON-RPC error payload is recorded as a breaker success and
\* does not open the breaker; a request whose bridge.send ends with a
\* timeout, a closed bridge (closed before the call or under it) or a write
\* failure is recorded as a breaker failure.
C29_PayloadErrorsSucceedBridgeErrorsFail ==
    \A c \in ProxyCallers :
        proxy[c].pc \in {"returned", "raised"} =>
            /\ (calls[c].outcome = "response" /\ proxy[c].payload = "error")
                  => (proxy[c].recorded = "success" /\ ~proxy[c].opened)
            /\ calls[c].outcome \in {"Timeout", "Closed", "CancelledError",
                                     "SendFailed"}
                  => proxy[c].recorded = "failure"

\* C30: generate() ends after at most max_retries + 1 attempts.  Connection
\* errors and timeouts are retried, with one sleep of retry_delay between
\* two attempts; a model-not-found response is raised at once, with no
\* further attempt; a successful attempt returns at once; after the last
\* failed attempt the last error is raised.
C30_GenerateEndsWithinRetries ==
    /\ [](/\ Len(gen.tried) <= gen.max_retries + 1
          /\ \A i \in 1..Len(gen.tried) - 1 :
                gen.tried[i] \in {"ConnectError", "TimeoutException",
                                  "RequestError"}
          /\ gen.pc = "post" => gen.slept = Len(gen.tried)
          /\ gen.pc = "sleep"
                => /\ gen.slept = Len(gen.tried) - 1
                   /\ Len(gen.tried) <= gen.max_retries
          /\ (gen.pc = "done" /\ Len(gen.tried) > 0)
                => /\ gen.slept = Len(gen.tried) - 1
                   /\ LET last == gen.tried[Len(gen.tried)] IN
                      CASE last = "ok" -> gen.result = "OllamaResponse"
                        [] last = "not_found" ->
                             gen.result = "OllamaModelError"
                        [] last = "ConnectError" ->
                             /\ gen.result = "OllamaConnectionError"
                             /\ Len(gen.tried) = gen.max_retries + 1
                        [] last = "TimeoutException" ->
                             /\ gen.result = "OllamaError: timed out"
                             /\ Len(gen.tried) = gen.max_retries + 1
                        [] OTHER -> TRUE
          /\ (gen.pc # "done" /\ Len(gen.tried) > 0)
                => gen.tried[Len(gen.tried)]
                      \in {"ConnectError", "TimeoutException", "RequestError"})
    /\ <>(gen.pc = "done")

\* A generate() with max_retries = 2 whose three attempts failed, the first
\* two on a timeout and the last on a refused connection, which it raised
\* after two sleeps.
C30_Witness ==
    /\ gen.pc = "done"
    /\ gen.max_retries = 2
    /\ gen.tried = <<"TimeoutException", "TimeoutException", "ConnectError">>
    /\ gen.slept = 2
    /\ gen.result = "OllamaConnectionError"

\* C31: under any interleaving of start_server, stop_server, restart_server
\* and the liveness loop, no two servers share a registered bridge, a server
\* with a registered bridge has a process handle tracked by ProcessManager,
\* and no bridge is registered for a server that is STOPPED or FAILED.
C31_BridgeOnlyForTrackedServer ==
    /\ \A s, t \in Servers :
          (bridges[s] # None /\ bridges[s] = bridges[t]) => s = t
    /\ \A s \in Servers : bridges[s] # None => processes[s] # None
    /\ \A s \in Servers :
          info[s].status \in {STOPPED, FAILED} => bridges[s] = None

\* C32: the request ids one bridge issues are strictly increasing: each new
\* id is greater than every id issued before, so no two send() calls hold
\* the same id and no two requests in flight await the same id.
C32_RequestIdsIncrease ==
    /\ [](\A c, d \in Callers :
             (c # d /\ calls[c].id # NoId) => calls[c].id # calls[d].id)
    /\ [](\A c \in Callers :
             calls[c].id # NoId => (1 <= calls[c].id /\ calls[c].id <= request_id))
    /\ [][\A c \in Callers :
             (calls[c].id = NoId /\ calls'[c].id # NoId)
                => /\ calls'[c].id > request_id
                   /\ request_id' = calls'[c].id]_vars

\* Three send() calls whose requests are all in flight at once, each with
\* its own id.
C32_Witness ==
    /\ \A c \in Callers : calls[c].pc = "wait" /\ calls[c].id \in pending
    /\ {calls[c].id : c \in Callers} = {1, 2, 3}

\* C33: when spawning the child fails, ProcessManager.start leaves the
\* server FAILED with last_error set and no process tracked for it, and
\* raises the start failure; start_server registers no bridge for it.
C33_FailedSpawnLeavesNothing ==
    [][\A t \in Tasks :
          (/\ task[t].pc = "spawn"
           /\ task'[t].pc = "idle"
           /\ task'[t].result = "RuntimeError")
             => LET s == task[t].srv IN
                /\ info'[s].status = FAILED
                /\ info'[s].last_error # NoneStr
                /\ processes'[s] = None
                /\ bridges'[s] = None]_vars

\* C38: under concurrent start calls for one server, at most one child is
\* spawned for it: no child runs without being the process ProcessManager
\* tracks for a server.
C38_NoUntrackedChild ==
    \A p \in Pids :
        children[p] = "alive" => \E s \in Servers : processes[s] = p

\* C35: record_success while the breaker is CLOSED leaves the state and
\* failure_count unchanged; failure_count goes down only when the breaker
\* closes from half-open or is reset.
C35_SuccessKeepsFailureCount ==
    [][/\ (State = CLOSED /\ stats'.total_successes = stats.total_successes + 1)
          => /\ stats'.failure_count = stats.failure_count
             /\ stats'.state = CLOSED
       /\ stats'.failure_count < stats.failure_count
          => \/ stats' = CircuitBreakerStats
             \/ /\ State = HALF_OPEN
                /\ stats'.state = CLOSED
                /\ stats'.total_successes = stats.total_successes + 1]_vars

\* A closed breaker that recorded a failure and, later, a success: the
\* failure is still counted.
C35_Witness ==
    /\ stats.state = CLOSED
    /\ stats.times_opened = 0
    /\ stats.failure_count = 1
    /\ stats.success_count = 1
    /\ stats.last_failure_time # None
    /\ stats.last_failure_time < stats.last_success_time

\* C36: if every probe admitted in HALF_OPEN reports success, a breaker that
\* reads HALF_OPEN is eventually CLOSED, for every configuration of
\* success_threshold and half_open_max_calls.
C36_HalfOpenEventuallyCloses ==
    [](State = HALF_OPEN => <>(State = CLOSED))

\* C37: in the dispatcher, every request that breaker.check() admitted and
\* that has ended (server not running, auto-start failure, no bridge
\* available, send error, success) has recorded a success or a failure on
\* the breaker.
C37_AdmittedRequestsRecord ==
    \A c \in ProxyCallers :
        proxy[c].pc \in {"returned", "raised"} => proxy[c].recorded # "none"

\* C39: every send() that has returned to its caller has returned the
\* response matching its id, Timeout or the bridge's error (the bridge
\* closed, or the request not written), whatever the child did, and its id
\* is no longer in pending.
C39_SendEndsAsSpecified ==
    \A c \in Callers :
        calls[c].pc = "done" =>
            /\ calls[c].outcome \in {"response", "Timeout", "Closed",
                                     "SendFailed"}
            /\ calls[c].outcome = "response" => calls[c].got = calls[c].id
            /\ calls[c].id \notin pending

\* C40: a value enters the enhancement cache only in the step in which an
\* enhance() call gets its answer from the LLM, under the key of that call's
\* prompt, client and model, and is the answer the call returns; a call that
\* fails, is rejected or is disabled writes nothing.
C40_CacheHoldsOnlyLLMAnswers ==
    [][\A i \in 1..Len(cache') :
          (\A j \in 1..Len(cache) :
              cache[j].key # cache'[i].key \/ cache[j].value # cache'[i].value)
             => \E c \in EnhCallers :
                   /\ ecalls[c].pc = "llm"
                   /\ ecalls'[c].pc = "idle"
                   /\ ecalls'[c].result.path = "llm"
                   /\ ecalls'[c].result.enhanced_by_llm
                   /\ cache'[i].key = <<ecalls[c].prompt, "default", RuleModel>>
                   /\ ecalls[c].client = NoneStr
                   /\ cache'[i].value = ecalls'[c].result.enhanced]_vars

\* Every enhance() call so far bypassed the cache lookup, one of them got an
\* answer from the LLM, and the cache holds that answer.
C40_Witness ==
    /\ hist.gets = 0
    /\ \E c \in EnhCallers :
          /\ ecalls[c].result.path = "llm"
          /\ \E i \in 1..Len(cache) :
                /\ cache[i].key = <<ecalls[c].prompt, "default", RuleModel>>
                /\ cache[i].value = ecalls[c].result.enhanced
                /\ cache[i].value = "P+"

====
